---- MODULE Spec2Model ----
(***************************************************************************)
(* Model of the solar battery controller (nicekhan23/solar_controller):    *)
(* the moving-average filter, the per-channel hysteresis pipeline and the  *)
(* control task's arbitration, translated from src/main/*.c.               *)
(*                                                                         *)
(* The specifications below share the definitions:                        *)
(*   SpecFilter   one moving_average_t driven by ma_add / ma_get           *)
(*   SpecChannel  one channel_proc_task iteration per step, on the         *)
(*                readings its input queue delivers                        *)
(*   SpecCompensation  one channel task on readings of many temperatures,  *)
(*                with the coefficient the configuration was loaded with   *)
(*   SpecConfig   both channel tasks and the set_threshold and             *)
(*                set_temp_coeff commands, interleaved                     *)
(*   SpecQueue    adc_task at its sample period, both channel tasks and    *)
(*                the control task, interleaved                            *)
(*   Spec         adc_task, both channel tasks, the control task, the      *)
(*                motion interrupt and the set_pwm command, interleaved    *)
(*   SpecLock     the control task with hw_mutex taken and given in        *)
(*                separate steps, and the console's status, motion and     *)
(*                shutdown commands                                        *)
(*   SpecMotion   check_motion_timeout statement by statement, the motion  *)
(*                interrupt and the motion command, on a running clock     *)
(*   SpecThreshold  both channel tasks and set_threshold with its two      *)
(*                stores as separate steps                                 *)
(*   SpecSampling adc_task and both channel tasks only                     *)
(*   SpecPwm      the tasks of Spec with set_pwm arguments outside and     *)
(*                inside the accepted range                                *)
(*   SpecDefer    SpecChannel with a channel loop that keeps running       *)
(*   SpecLevel    one channel task and the control task, which keeps       *)
(*                running its cycle                                        *)
(*   SpecMutex    every take and give of hw_mutex as a step of its own,    *)
(*                with PWM driver calls that can fail                      *)
(*                                                                         *)
(* Voltages are millivolts, times are milliseconds.  The temperature and   *)
(* the temperature coefficient are floats, and the arithmetic of           *)
(* process_channel and apply_temperature_compensation on them is single    *)
(* precision, rounded after every operation as the target's FPU does.      *)
(***************************************************************************)
EXTENDS Integers, Sequences, FiniteSets, TLC

VARIABLES
    flt,              \* SpecFilter: the moving_average_t under test
    pushed,           \* SpecFilter: samples given to ma_add so far
    outs,             \* SpecFilter: ma_get after each ma_add
    g_config,         \* nvs_storage: app_config_t g_config
    ctx,              \* channel_proc_task: channel_context_t of each channel
    temp_raw,         \* the temperature sensor's output in mV (environment)
    now,              \* tick count in ms
    n_readings,       \* readings produced so far (bounded by MaxReadings)
    sel,              \* SpecChannel: the channel task that is running
    accepted,         \* per channel: timestamps of the readings at which
                      \* output_state changed (observation log)
    adc_queue,        \* adc_queue_ch0 / adc_queue_ch1
    command_queue,    \* ch0_command_queue / ch1_command_queue
    ctl,              \* control_task: its locals and its position
    hw_state,         \* control_handler: hw_control_t hw_state
    hw_mutex,         \* control_handler: holder of hw_mutex, or "free"
    ledc_duty,        \* LEDC duty register of each PWM output (0..8191)
    motion_active,    \* control_handler: volatile bool motion_active
    last_motion_time, \* control_handler: volatile uint32_t last_motion_time
    gated,            \* per channel: Len(accepted) at the last applied cycle
                      \* that reported the channel disabled while its command
                      \* was ON, or -1 (observation log)
    evaluations,      \* per channel: each reading its task has processed,
                      \* with the configuration at that moment, the effective
                      \* thresholds and the command it offered (observation log)
    received,         \* per channel: the commands control_task has taken from
                      \* the command queue (observation log)
    cli,              \* cli_task: the console command in progress or last
                      \* completed, its arguments, return value and the
                      \* hw_control_t control_get_state filled
    chk,              \* control_task: the locals of check_motion_timeout
    last_edge         \* time of the last edge motion_sensor_isr_handler
                      \* accepted, or -1 (observation log)

vars == <<flt, pushed, outs, g_config, ctx, temp_raw, now, n_readings, sel,
          accepted, adc_queue, command_queue, ctl, hw_state, hw_mutex,
          ledc_duty, motion_active, last_motion_time, gated, evaluations,
          received, cli, chk, last_edge>>

Channels == {0, 1}

-----------------------------------------------------------------------------
(* Program constants *)

MA_SIZE == 16
MIN_STATE_CHANGE_MS == 5000
DEFAULT_CH0_TH_ON == 12500
DEFAULT_CH0_TH_OFF == 11800
DEFAULT_CH1_TH_ON == 12500
DEFAULT_CH1_TH_OFF == 11800
DEFAULT_TEMP_COEFF_MILLI == -20
DEFAULT_PWM_HALF == 50
DEFAULT_PWM_FULL == 100
DEFAULT_MOTION_TO == 30000
QUEUE_SIZE == 10
ADC_SAMPLE_INTERVAL_MS == 100
COMMAND_QUEUE_SIZE == 5

(* C integer division: the quotient is cut toward zero. *)
CDiv(a, b) == IF a >= 0 THEN a \div b ELSE -((-a) \div b)

-----------------------------------------------------------------------------------------------------------------------------------------------------
(* float arithmetic: IEEE 754 single precision, round to nearest even.      *)
(* A float is [s, m, e] with value (-1)^s * m * 2^e, where m = 0 or         *)
(* 2^23 <= m < 2^24.  Every value the program computes here is far from     *)
(* the overflow and subnormal ranges, so e is not bounded.                  *)
(* Each operator takes its operands through a one-element set, which       *)
(* gives them their value once, as a C expression evaluates its operands.  *)

(* The number of bits of n, 0 <= n < 2^31. *)
BitLength4(n) ==
    IF n = 0 THEN 0 ELSE IF n < 2 THEN 1 ELSE IF n < 4 THEN 2
    ELSE IF n < 8 THEN 3 ELSE 4

BitLength8(n) == IF n < 16 THEN BitLength4(n) ELSE 4 + BitLength4(n \div 16)

BitLength16(n) == IF n < 256 THEN BitLength8(n) ELSE 8 + BitLength8(n \div 256)

BitLength(n) ==
    IF n < 65536 THEN BitLength16(n) ELSE 16 + BitLength16(n \div 65536)

F32Zero == [s |-> 0, m |-> 0, e |-> 0]

(* The float nearest to (-1)^s * (m + f) * 2^e, where 0 < f < 1 when sticky *)
(* and f = 0 otherwise.  With sticky, m has at least 25 bits.               *)
F32Pack(sign, mantissa, exponent, sticky) ==
    CHOOSE result \in
        { IF m = 0 THEN F32Zero
          ELSE IF n <= 24
               THEN [s |-> s, m |-> m * 2^(24 - n), e |-> e - (24 - n)]
               ELSE LET k == n - 24
                        q == m \div 2^k
                        r == m % 2^k
                        half == 2^(k - 1)
                        up == r > half \/ (r = half /\ (st \/ q % 2 = 1))
                    IN  IF (IF up THEN q + 1 ELSE q) = 2^24
                        THEN [s |-> s, m |-> 2^23, e |-> e + k + 1]
                        ELSE [s |-> s, m |-> IF up THEN q + 1 ELSE q,
                              e |-> e + k]
          : s \in {sign}, m \in {mantissa}, e \in {exponent}, st \in {sticky},
            n \in {BitLength(mantissa)} } : TRUE

(* (float)n *)
F32FromInt(n) == F32Pack(IF n < 0 THEN 1 ELSE 0, IF n < 0 THEN -n ELSE n, 0, FALSE)

F32Neg(a) == IF a.m = 0 THEN a ELSE [a EXCEPT !.s = 1 - a.s]

(* left + right *)
F32Add(left, right) ==
    CHOOSE result \in
        { IF a.m = 0 THEN b
          ELSE IF b.m = 0 THEN a
          ELSE LET x == IF a.e >= b.e THEN a ELSE b
                   y == IF a.e >= b.e THEN b ELSE a
                   d == x.e - y.e
                   X == x.m * 8             \* three guard bits
                   Y == IF d >= 27 THEN 0 ELSE (y.m * 8) \div 2^d
                   sticky == IF d >= 27 THEN TRUE ELSE (y.m * 8) % 2^d # 0
               IN  IF x.s = y.s
                   THEN F32Pack(x.s, X + Y, x.e - 3, sticky)
                   ELSE IF X >= Y
                        THEN F32Pack(x.s, IF sticky THEN X - Y - 1 ELSE X - Y,
                                     x.e - 3, sticky)
                        ELSE F32Pack(y.s, Y - X, x.e - 3, FALSE)
          : a \in {left}, b \in {right} } : TRUE

(* left - right *)
F32Sub(left, right) ==
    CHOOSE result \in {F32Add(a, F32Neg(b)) : a \in {left}, b \in {right}} : TRUE

(* left * right: the 48-bit product of the mantissas is formed from 12-bit *)
(* halves.                                                                  *)
F32Mul(left, right) ==
    CHOOSE result \in
        { IF a.m = 0 \/ b.m = 0 THEN F32Zero
          ELSE LET a1 == a.m \div 4096
                   a0 == a.m % 4096
                   b1 == b.m \div 4096
                   b0 == b.m % 4096
                   mid == a1 * b0 + a0 * b1
                   low == (mid % 4096) * 4096 + a0 * b0
                   lo == low % 2^24
                   hi == a1 * b1 + mid \div 4096 + low \div 2^24
               IN  F32Pack((a.s + b.s) % 2, hi * 4 + lo \div 2^22,
                           a.e + b.e + 22, lo % 2^22 # 0)
          : a \in {left}, b \in {right} } : TRUE

(* n further quotient bits of r / d after the bits q, six at a time, with  *)
(* r < d < 2^24; the result is <<quotient, remainder>>.                    *)
RECURSIVE LongDiv(_, _, _, _)
LongDiv(q, r, d, n) ==
    IF n = 0 THEN <<q, r>>
    ELSE IF n >= 6
         THEN CHOOSE result \in
                  { LongDiv(q6, r6, d, n - 6)
                    : q6 \in {q * 64 + (r * 64) \div d}, r6 \in {(r * 64) % d} }
                  : TRUE
         ELSE <<q * 2^n + (r * 2^n) \div d, (r * 2^n) % d>>

(* left / right, right not zero *)
F32Div(left, right) ==
    CHOOSE result \in
        { IF a.m = 0 THEN F32Zero
          ELSE CHOOSE quotient \in
                   { F32Pack((a.s + b.s) % 2, qr[1], a.e - b.e - 26, qr[2] # 0)
                     : qr \in {LongDiv(a.m \div b.m, a.m % b.m, b.m, 26)} }
                   : TRUE
          : a \in {left}, b \in {right} } : TRUE

(* left < right *)
F32Lt(left, right) ==
    CHOOSE result \in
        { IF a.m = 0 THEN b.m # 0 /\ b.s = 0
          ELSE IF b.m = 0 THEN a.s = 1
          ELSE IF a.s # b.s THEN a.s = 1
          ELSE IF a.s = 0 THEN a.e < b.e \/ (a.e = b.e /\ a.m < b.m)
          ELSE a.e > b.e \/ (a.e = b.e /\ a.m > b.m)
          : a \in {left}, b \in {right} } : TRUE

(* (int32_t)value: the fraction is discarded.  |value| < 2^31 for every    *)
(* value the program converts.                                             *)
F32ToInt32(value) ==
    CHOOSE result \in
        { IF a.s = 1
          THEN -(IF a.e >= 0 THEN a.m * 2^a.e
                 ELSE IF a.e <= -24 THEN 0 ELSE a.m \div 2^(-a.e))
          ELSE IF a.e >= 0 THEN a.m * 2^a.e
               ELSE IF a.e <= -24 THEN 0 ELSE a.m \div 2^(-a.e)
          : a \in {value} } : TRUE

(* The float constants of the program. *)
F32_10 == F32FromInt(10)
F32_25 == F32FromInt(25)
F32_500 == F32FromInt(500)
F32_1000 == F32FromInt(1000)
F32_minus_40 == F32FromInt(-40)
F32_125 == F32FromInt(125)

(* The float nearest to k / 1000: the literal -0.02f for k = -20, and      *)
(* (float)val_i32 / 1000.0f in nvs_load_config.                            *)
F32Milli(k) == F32Div(F32FromInt(k), F32_1000)

-----------------------------------------------------------------------------
(* Moving-average filter: channel_processor.c *)

ma_init ==
    [buffer |-> [i \in 0..(MA_SIZE - 1) |-> 0],
     index |-> 0, sum |-> 0, count |-> 0, initialized |-> FALSE]

ma_add_no_evict(ma, value) ==
    IF ~ma.initialized
    THEN [buffer |-> [i \in 0..(MA_SIZE - 1) |-> value],
          index |-> ma.index, sum |-> value * MA_SIZE,
          count |-> MA_SIZE, initialized |-> TRUE]
    ELSE [buffer |-> [ma.buffer EXCEPT ![ma.index] = value],
          index |-> (ma.index + 1) % MA_SIZE,
          sum |-> ma.sum + value,
          count |-> IF ma.count < MA_SIZE THEN ma.count + 1 ELSE ma.count,
          initialized |-> TRUE]

ma_add_seed_one_slot(ma, value) ==
    IF ~ma.initialized
    THEN [buffer |-> [ma.buffer EXCEPT ![0] = value],
          index |-> ma.index, sum |-> value * MA_SIZE,
          count |-> MA_SIZE, initialized |-> TRUE]
    ELSE [buffer |-> [ma.buffer EXCEPT ![ma.index] = value],
          index |-> (ma.index + 1) % MA_SIZE,
          sum |-> ma.sum - ma.buffer[ma.index] + value,
          count |-> IF ma.count < MA_SIZE THEN ma.count + 1 ELSE ma.count,
          initialized |-> TRUE]

ma_add_no_advance(ma, value) ==
    IF ~ma.initialized
    THEN [buffer |-> [i \in 0..(MA_SIZE - 1) |-> value],
          index |-> ma.index, sum |-> value * MA_SIZE,
          count |-> MA_SIZE, initialized |-> TRUE]
    ELSE [buffer |-> [ma.buffer EXCEPT ![ma.index] = value],
          index |-> ma.index,
          sum |-> ma.sum - ma.buffer[ma.index] + value,
          count |-> IF ma.count < MA_SIZE THEN ma.count + 1 ELSE ma.count,
          initialized |-> TRUE]

ma_add(ma, value) ==
    IF ~ma.initialized
    THEN \* first fill: every slot takes the first value
         [buffer |-> [i \in 0..(MA_SIZE - 1) |-> value],
          index |-> ma.index, sum |-> value * MA_SIZE,
          count |-> MA_SIZE, initialized |-> TRUE]
    ELSE [buffer |-> [ma.buffer EXCEPT ![ma.index] = value],
          index |-> (ma.index + 1) % MA_SIZE,
          sum |-> ma.sum - ma.buffer[ma.index] + value,
          count |-> IF ma.count < MA_SIZE THEN ma.count + 1 ELSE ma.count,
          initialized |-> TRUE]

ma_get_floor(ma) == IF ma.count = 0 THEN 0 ELSE ma.sum \div ma.count

ma_get(ma) == IF ma.count = 0 THEN 0 ELSE CDiv(ma.sum, ma.count)

-----------------------------------------------------------------------------
(* Configuration: nvs_storage *)

DEFAULT_TEMP_COEFF == F32Milli(DEFAULT_TEMP_COEFF_MILLI)   \* -0.02f

nvs_load_config ==
    [ch0_th_on_mv |-> DEFAULT_CH0_TH_ON, ch0_th_off_mv |-> DEFAULT_CH0_TH_OFF,
     ch1_th_on_mv |-> DEFAULT_CH1_TH_ON, ch1_th_off_mv |-> DEFAULT_CH1_TH_OFF,
     temp_coefficient |-> DEFAULT_TEMP_COEFF,
     pwm_half_duty |-> DEFAULT_PWM_HALF, pwm_full_duty |-> DEFAULT_PWM_FULL,
     motion_timeout_ms |-> DEFAULT_MOTION_TO]

nvs_get_ch0_th_on == g_config.ch0_th_on_mv
nvs_get_ch0_th_off == g_config.ch0_th_off_mv
nvs_get_ch1_th_on == g_config.ch1_th_on_mv
nvs_get_ch1_th_off == g_config.ch1_th_off_mv
nvs_get_temp_coefficient == g_config.temp_coefficient
nvs_get_pwm_half_duty == g_config.pwm_half_duty
nvs_get_pwm_full_duty == g_config.pwm_full_duty
nvs_get_motion_timeout == g_config.motion_timeout_ms

nvs_set_ch0_thresholds(th_on_mv, th_off_mv) ==
    [g_config EXCEPT !.ch0_th_on_mv = th_on_mv, !.ch0_th_off_mv = th_off_mv]

nvs_set_ch1_thresholds(th_on_mv, th_off_mv) ==
    [g_config EXCEPT !.ch1_th_on_mv = th_on_mv, !.ch1_th_off_mv = th_off_mv]

nvs_set_temp_coefficient(coefficient) ==
    [g_config EXCEPT !.temp_coefficient = coefficient]

nvs_set_pwm_duties(half_duty, full_duty) ==
    [g_config EXCEPT !.pwm_half_duty = half_duty, !.pwm_full_duty = full_duty]

-----------------------------------------------------------------------------
(* Channel pipeline: channel_processor.c *)

(* a - b in uint32_t.  Every value of the model is below 2^31, so a wrapped *)
(* difference (a < b) is 2^32 - (b - a) > 2^31: it is held at the largest   *)
(* integer, above every threshold it is compared with.                      *)
U32Sub(a, b) == IF a >= b THEN a - b ELSE 2147483647

apply_hysteresis_single_threshold(current_state, value, th_on, th_off) ==
    value >= th_on

apply_hysteresis(current_state, value, th_on, th_off) ==
    IF current_state
    THEN value >= th_off   \* currently ON: OFF only below the OFF threshold
    ELSE value >= th_on    \* currently OFF: ON only at or above the ON threshold

apply_temperature_compensation_on_only(c, temp_c) ==
    CHOOSE result \in
        { [c EXCEPT !.th_on_mv = (IF c.channel_id = 0 THEN nvs_get_ch0_th_on
                                ELSE nvs_get_ch1_th_on) + compensation_mv,
                    !.th_off_mv = IF c.channel_id = 0 THEN nvs_get_ch0_th_off
                                ELSE nvs_get_ch1_th_off]
          : compensation_mv \in
                {F32ToInt32(F32Mul(F32Mul(c.temp_coefficient,
                                          F32Sub(temp_c, F32_25)),
                                   F32_1000))} } : TRUE

apply_temperature_compensation_shared_base(c, temp_c) ==
    CHOOSE result \in
        { [c EXCEPT !.th_on_mv = nvs_get_ch0_th_on + compensation_mv,
                    !.th_off_mv = nvs_get_ch0_th_off + compensation_mv]
          : compensation_mv \in
                {F32ToInt32(F32Mul(F32Mul(c.temp_coefficient,
                                          F32Sub(temp_c, F32_25)),
                                   F32_1000))} } : TRUE

(* c is a channel_context_t, temp_c a float.  compensation_mv is        *)
(* (int32_t)(coefficient * (temp_c - 25.0f) * 1000.0f), added to the      *)
(* channel's base thresholds from the configuration.                      *)
apply_temperature_compensation(c, temp_c) ==
    CHOOSE result \in
        { [c EXCEPT !.th_on_mv = (IF c.channel_id = 0 THEN nvs_get_ch0_th_on
                                ELSE nvs_get_ch1_th_on) + compensation_mv,
                    !.th_off_mv = (IF c.channel_id = 0 THEN nvs_get_ch0_th_off
                                ELSE nvs_get_ch1_th_off) + compensation_mv]
          : compensation_mv \in
                {F32ToInt32(F32Mul(F32Mul(c.temp_coefficient,
                                          F32Sub(temp_c, F32_25)),
                                   F32_1000))} } : TRUE

process_channel_keep_change_time(c, reading) ==
    CHOOSE result \in
        { LET new_state == apply_hysteresis(c1.state.output_state,
                                            c1.state.filtered_voltage,
                                            c1.th_on_mv, c1.th_off_mv)
              time_since_last_change ==
                  U32Sub(reading.timestamp_ms, c1.state.last_change_time)
          IN  IF new_state # c1.state.output_state
                 /\ time_since_last_change >= MIN_STATE_CHANGE_MS
              THEN [c1 EXCEPT !.state.output_state = new_state]
              ELSE c1
          : c1 \in
                { apply_temperature_compensation(
                      [c EXCEPT !.ma_filter = ma,
                                !.state.filtered_voltage = ma_get(ma)],
                      IF F32Lt(temp_c, F32_minus_40) \/ F32Lt(F32_125, temp_c)
                      THEN F32_25 ELSE temp_c)
                  : ma \in {ma_add(c.ma_filter, reading.battery_voltage_mv)},
                    temp_c \in
                        {F32Div(F32Sub(F32FromInt(reading.temperature_raw),
                                       F32_500), F32_10)} } } : TRUE

process_channel_closed_range(c, reading) ==
    CHOOSE result \in
        { LET new_state == apply_hysteresis(c1.state.output_state,
                                            c1.state.filtered_voltage,
                                            c1.th_on_mv, c1.th_off_mv)
              time_since_last_change ==
                  U32Sub(reading.timestamp_ms, c1.state.last_change_time)
          IN  IF new_state # c1.state.output_state
                 /\ time_since_last_change >= MIN_STATE_CHANGE_MS
              THEN [c1 EXCEPT !.state.output_state = new_state,
                              !.state.last_change_time = reading.timestamp_ms]
              ELSE c1
          : c1 \in
                { apply_temperature_compensation(
                      [c EXCEPT !.ma_filter = ma,
                                !.state.filtered_voltage = ma_get(ma)],
                      IF ~F32Lt(F32_minus_40, temp_c) \/ ~F32Lt(temp_c, F32_125)
                      THEN F32_25 ELSE temp_c)
                  : ma \in {ma_add(c.ma_filter, reading.battery_voltage_mv)},
                    temp_c \in
                        {F32Div(F32Sub(F32FromInt(reading.temperature_raw),
                                       F32_500), F32_10)} } } : TRUE

process_channel_stale_voltage(c, reading) ==
    CHOOSE result \in
        { IF r.state.output_state # c.state.output_state THEN r
          ELSE [r EXCEPT !.state.filtered_voltage = c.state.filtered_voltage]
          : r \in {process_channel_closed_range(c, reading)} } : TRUE

process_channel_strict_debounce(c, reading) ==
    CHOOSE result \in
        { LET new_state == apply_hysteresis(c1.state.output_state,
                                            c1.state.filtered_voltage,
                                            c1.th_on_mv, c1.th_off_mv)
              time_since_last_change ==
                  U32Sub(reading.timestamp_ms, c1.state.last_change_time)
          IN  IF new_state # c1.state.output_state
                 /\ time_since_last_change > MIN_STATE_CHANGE_MS
              THEN [c1 EXCEPT !.state.output_state = new_state,
                              !.state.last_change_time = reading.timestamp_ms]
              ELSE c1
          : c1 \in
                { apply_temperature_compensation(
                      [c EXCEPT !.ma_filter = ma,
                                !.state.filtered_voltage = ma_get(ma)],
                      IF F32Lt(temp_c, F32_minus_40) \/ F32Lt(F32_125, temp_c)
                      THEN F32_25 ELSE temp_c)
                  : ma \in {ma_add(c.ma_filter, reading.battery_voltage_mv)},
                    temp_c \in
                        {F32Div(F32Sub(F32FromInt(reading.temperature_raw),
                                       F32_500), F32_10)} } } : TRUE

(* The filter takes the voltage, the temperature is converted (TMP36:    *)
(* Vout = temp * 10 mV + 500 mV) and replaced by the reference outside   *)
(* -40..125 degrees, the thresholds are compensated, and the hysteresis   *)
(* result is accepted when the last change is old enough.                *)
process_channel(c, reading) ==
    CHOOSE result \in
        { LET new_state == apply_hysteresis(c1.state.output_state,
                                            c1.state.filtered_voltage,
                                            c1.th_on_mv, c1.th_off_mv)
              time_since_last_change ==
                  U32Sub(reading.timestamp_ms, c1.state.last_change_time)
          IN  IF new_state # c1.state.output_state
                 /\ time_since_last_change >= MIN_STATE_CHANGE_MS
              THEN [c1 EXCEPT !.state.output_state = new_state,
                              !.state.last_change_time = reading.timestamp_ms]
              ELSE c1
          : c1 \in
                { apply_temperature_compensation(
                      [c EXCEPT !.ma_filter = ma,
                                !.state.filtered_voltage = ma_get(ma)],
                      IF F32Lt(temp_c, F32_minus_40) \/ F32Lt(F32_125, temp_c)
                      THEN F32_25 ELSE temp_c)
                  : ma \in {ma_add(c.ma_filter, reading.battery_voltage_mv)},
                    temp_c \in
                        {F32Div(F32Sub(F32FromInt(reading.temperature_raw),
                                       F32_500), F32_10)} } } : TRUE

channel_context_init_on(ch, cfg) ==
    [channel_id |-> ch,
     ma_filter |-> ma_init,
     state |-> [output_state |-> TRUE, filtered_voltage |-> 0,
                last_change_time |-> 0],
     th_on_mv |-> IF ch = 0 THEN cfg.ch0_th_on_mv ELSE cfg.ch1_th_on_mv,
     th_off_mv |-> IF ch = 0 THEN cfg.ch0_th_off_mv ELSE cfg.ch1_th_off_mv,
     temp_coefficient |-> cfg.temp_coefficient]

(* configure_channels and the start of channel_proc_task: the context a   *)
(* channel task begins with, from the configuration cfg read at boot.     *)
channel_context_init(ch, cfg) ==
    [channel_id |-> ch,
     ma_filter |-> ma_init,
     state |-> [output_state |-> FALSE, filtered_voltage |-> 0,
                last_change_time |-> 0],
     th_on_mv |-> IF ch = 0 THEN cfg.ch0_th_on_mv ELSE cfg.ch1_th_on_mv,
     th_off_mv |-> IF ch = 0 THEN cfg.ch0_th_off_mv ELSE cfg.ch1_th_off_mv,
     temp_coefficient |-> cfg.temp_coefficient]

xQueueSend_overwrite(queue, item, size) ==
    IF Len(queue) < size THEN Append(queue, item)
    ELSE Append(Tail(queue), item)

xQueueSend_to_front(queue, item, size) ==
    IF Len(queue) < size THEN <<item>> \o queue ELSE queue

(* xQueueSend(queue, item, 0): the item is dropped when the queue is full. *)
xQueueSend(queue, item, size) ==
    IF Len(queue) < size THEN Append(queue, item) ELSE queue

(* One iteration of channel_proc_task's loop on the reading its            *)
(* xQueueReceive returned: process_channel, then the command is offered to *)
(* the channel's command queue.                                            *)
channel_proc_iteration(ch, reading) ==
    \E c \in {process_channel(ctx[ch], reading)} :
    LET cmd == [channel_id |-> c.channel_id,
                output_state |-> c.state.output_state,
                filtered_voltage |-> c.state.filtered_voltage,
                timestamp_ms |-> reading.timestamp_ms]
    IN  /\ ctx' = [ctx EXCEPT ![ch] = c]
        /\ command_queue' = [command_queue EXCEPT
               ![ch] = xQueueSend(command_queue[ch], cmd, COMMAND_QUEUE_SIZE)]
        /\ evaluations' = [evaluations EXCEPT
               ![ch] = Append(@, [reading |-> reading,
                                  cfg |-> [th_on_mv |->
                                               IF ch = 0 THEN nvs_get_ch0_th_on
                                                         ELSE nvs_get_ch1_th_on,
                                           th_off_mv |->
                                               IF ch = 0 THEN nvs_get_ch0_th_off
                                                         ELSE nvs_get_ch1_th_off,
                                           temp_coefficient |->
                                               nvs_get_temp_coefficient],
                                  th_on_mv |-> c.th_on_mv,
                                  th_off_mv |-> c.th_off_mv, cmd |-> cmd,
                                  sent |-> Len(command_queue[ch])
                                               < COMMAND_QUEUE_SIZE])]
        /\ accepted' = IF c.state.output_state # ctx[ch].state.output_state
                       THEN [accepted EXCEPT
                                ![ch] = Append(@, reading.timestamp_ms)]
                       ELSE accepted

(* channel_get_state: xQueuePeek on the channel's command queue with no   *)
(* wait; false when nothing is queued.                                     *)
channel_get_state(channel_id) ==
    IF channel_id \in Channels /\ command_queue[channel_id] # <<>>
    THEN Head(command_queue[channel_id]).output_state
    ELSE FALSE

(* channel_get_filtered_voltage: the same peek; 0 when nothing is queued. *)
channel_get_filtered_voltage(channel_id) ==
    IF channel_id \in Channels /\ command_queue[channel_id] # <<>>
    THEN Head(command_queue[channel_id]).filtered_voltage
    ELSE 0

-----------------------------------------------------------------------------
(* Control: control_handler.c *)

LEDC_MAX_DUTY == 8191
BATTERY_FULL_THRESHOLD == 13500
BATTERY_HALF_THRESHOLD == 12000
BATTERY_CRITICAL_THRESHOLD == 11000
MOTION_DEBOUNCE_MS == 500

percent_to_duty_full_scale(percent) ==
    LET p == IF percent > 100 THEN 100 ELSE percent
    IN  ((LEDC_MAX_DUTY + 1) * p) \div 100

(* percent is a uint8_t; the result is at most LEDC_MAX_DUTY. *)
percent_to_duty(percent) ==
    LET p == IF percent > 100 THEN 100 ELSE percent
    IN  (LEDC_MAX_DUTY * p) \div 100

calculate_dimming_level_ignore_motion(battery_mv, motion_override) ==
    IF battery_mv >= BATTERY_FULL_THRESHOLD THEN nvs_get_pwm_full_duty
    ELSE IF battery_mv >= BATTERY_HALF_THRESHOLD THEN nvs_get_pwm_half_duty
    ELSE IF battery_mv >= BATTERY_CRITICAL_THRESHOLD
         THEN nvs_get_pwm_half_duty \div 2
    ELSE 0

calculate_dimming_level_strict(battery_mv, motion_override) ==
    IF motion_override THEN nvs_get_pwm_full_duty
    ELSE IF battery_mv > BATTERY_FULL_THRESHOLD THEN nvs_get_pwm_full_duty
    ELSE IF battery_mv > BATTERY_HALF_THRESHOLD THEN nvs_get_pwm_half_duty
    ELSE IF battery_mv > BATTERY_CRITICAL_THRESHOLD
         THEN nvs_get_pwm_half_duty \div 2
    ELSE 0

calculate_dimming_level_no_cutoff(battery_mv, motion_override) ==
    IF motion_override THEN nvs_get_pwm_full_duty
    ELSE IF battery_mv >= BATTERY_FULL_THRESHOLD THEN nvs_get_pwm_full_duty
    ELSE IF battery_mv >= BATTERY_HALF_THRESHOLD THEN nvs_get_pwm_half_duty
    ELSE nvs_get_pwm_half_duty \div 2

calculate_dimming_level(battery_mv, motion_override) ==
    IF motion_override THEN nvs_get_pwm_full_duty   \* always full brightness
    ELSE IF battery_mv >= BATTERY_FULL_THRESHOLD THEN nvs_get_pwm_full_duty
    ELSE IF battery_mv >= BATTERY_HALF_THRESHOLD THEN nvs_get_pwm_half_duty
    ELSE IF battery_mv >= BATTERY_CRITICAL_THRESHOLD
         THEN nvs_get_pwm_half_duty \div 2
    ELSE 0

(* The value check_motion_timeout returns; it is also the value            *)
(* motion_active has when check_motion_timeout returns.                    *)
check_motion_timeout ==
    IF ~motion_active THEN FALSE
    ELSE IF U32Sub(now, last_motion_time) > nvs_get_motion_timeout
         THEN FALSE   \* motion_active = false: the timeout has expired
         ELSE TRUE

motion_sensor_isr_handler_at_window ==
    /\ IF U32Sub(now, last_motion_time) >= MOTION_DEBOUNCE_MS
       THEN /\ motion_active' = TRUE
            /\ last_motion_time' = now
            /\ last_edge' = now
       ELSE UNCHANGED <<motion_active, last_motion_time, last_edge>>
    /\ UNCHANGED <<flt, pushed, outs, g_config, ctx, temp_raw, now, n_readings,
                   sel, accepted, adc_queue, command_queue, ctl, hw_state,
                   hw_mutex, ledc_duty, gated,
                   evaluations, received,
                   cli, chk>>

(* GPIO interrupt of the motion sensor: the edge is accepted when more    *)
(* than MOTION_DEBOUNCE_MS have passed since last_motion_time.            *)
motion_sensor_isr_handler ==
    /\ IF U32Sub(now, last_motion_time) > MOTION_DEBOUNCE_MS
       THEN /\ motion_active' = TRUE
            /\ last_motion_time' = now
            /\ last_edge' = now
       ELSE UNCHANGED <<motion_active, last_motion_time, last_edge>>
    /\ UNCHANGED <<flt, pushed, outs, g_config, ctx, temp_raw, now, n_readings,
                   sel, accepted, adc_queue, command_queue, ctl, hw_state,
                   hw_mutex, ledc_duty, gated,
                   evaluations, received,
                   cli, chk>>

hardware_update_state_only(ch0_enable, ch1_enable, duty_percent) ==
    /\ hw_state' = [hw_state EXCEPT !.ch0_state = ch0_enable,
                                     !.ch1_state = ch1_enable,
                                     !.pwm_duty = duty_percent]
    /\ UNCHANGED ledc_duty

(* The statements apply_hardware_control executes while it holds hw_mutex: *)
(* the three fields of hw_state and the duty of both PWM outputs.          *)
hardware_update(ch0_enable, ch1_enable, duty_percent) ==
    /\ hw_state' = [hw_state EXCEPT !.ch0_state = ch0_enable,
                                     !.ch1_state = ch1_enable,
                                     !.pwm_duty = duty_percent]
    /\ ledc_duty' =
         [ch \in Channels |->
            IF (ch = 0 /\ ch0_enable) \/ (ch = 1 /\ ch1_enable)
            THEN percent_to_duty(duty_percent)
            ELSE percent_to_duty(0)]

apply_hardware_control_no_lock(ch0_enable, ch1_enable, duty_percent) ==
    hardware_update(ch0_enable, ch1_enable, duty_percent)

(* hw_mutex is taken with a 100 ms timeout and given back before the      *)
(* function returns; when it cannot be taken nothing is written.          *)
apply_hardware_control(ch0_enable, ch1_enable, duty_percent) ==
    IF hw_mutex # "free"
    THEN UNCHANGED <<hw_state, ledc_duty>>
    ELSE hardware_update(ch0_enable, ch1_enable, duty_percent)

zero_command ==
    [channel_id |-> 0, output_state |-> FALSE, filtered_voltage |-> 0,
     timestamp_ms |-> 0]

(* The locals of control_task's loop body at the top of an iteration. *)
loop_locals ==
    [ch_updated |-> [ch \in Channels |-> FALSE], battery_mv |-> 0,
     motion_override |-> FALSE, duty_percent |-> 0,
     ch_enable |-> [ch \in Channels |-> FALSE]]

control_task_init ==
    [pc |-> "recv0", ch_cmd |-> [ch \in Channels |-> zero_command],
     ch_updated |-> loop_locals.ch_updated,
     battery_mv |-> loop_locals.battery_mv,
     motion_override |-> loop_locals.motion_override,
     duty_percent |-> loop_locals.duty_percent,
     ch_enable |-> loop_locals.ch_enable]

(* The locals now and motion_timeout of check_motion_timeout before it has *)
(* read anything, with what is observed when a check begins: the tick      *)
(* count (start), the time of the last accepted edge (edge_at) and the     *)
(* time the last motion command returned (trigger_at), -1 for none.        *)
check_locals ==
    [now |-> 0, motion_timeout |-> 0, start |-> 0, edge_at |-> -1,
     trigger_at |-> -1]

hw_control_init ==
    [ch0_state |-> FALSE, ch1_state |-> FALSE, pwm_duty |-> 0,
     motion_detected |-> FALSE]

(* cli_task before its first command: cmd is the console command in        *)
(* progress or last completed, ret its return value, at the tick count     *)
(* when it returned, channel, th_on_mv and th_off_mv the arguments of      *)
(* set_threshold, hw_state the local of cmd_status that control_get_state  *)
(* fills, took_mutex whether the last status or shutdown command obtained  *)
(* hw_mutex.                                                               *)
cli_task_init ==
    [pc |-> "idle", cmd |-> "none", ret |-> 0, at |-> 0, channel |-> 0,
     th_on_mv |-> 0, th_off_mv |-> 0, hw_state |-> hw_control_init,
     took_mutex |-> FALSE]

(* ch_enable = cmd.output_state && (duty_percent > 0) *)
channel_enable_ignore_duty(cmd, duty_percent) == cmd.output_state

channel_enable(cmd, duty_percent) == cmd.output_state /\ duty_percent > 0

-----------------------------------------------------------------------------
(* Bounds of the model and the inputs drawn at each step *)

MaxPushes == 19       \* SpecFilter: samples pushed into the filter
MaxChanges == 2       \* SpecFilter: places where the sample value changes
MaxReadings == 5      \* SpecChannel: readings delivered to the channel
MaxSamples == 1       \* Spec: readings adc_task produces
MaxTicks == 1         \* Spec: clock steps
TickMs == 5000        \* Spec: length of a clock step
MaxEvals == 2         \* SpecCompensation: readings delivered to the channel
MaxConfigSamples == 2 \* SpecConfig: readings adc_task produces
MaxPeriods == 7       \* SpecQueue: sample periods of adc_task

FilterSamples == {-5, 0, 7}
ReadingVolts == {0, 12400, 18000}
ReadingGaps == {1, 4999}
TempRaws == {750, 850}
AdcVolts == {18000}
BatteryLevels == {10999, 11000, 11999, 12000, 13499, 13500}
PwmInputs == {1, 100}
CompensationRaws == {99, 100, 650, 679, 750, 755, 821, 850, 1750, 1751}
CoeffMillis == {-20, -3, 16}         \* stored coefficient, in thousandths
ConfigVolts == {12400}
ConfigRaws == {750, 850}
ConfigGapMs == 5000
ThresholdInputs == {<<12000, 11500>>, <<11800, 12500>>}
CoeffInputs == {-3, 200}             \* set_temp_coeff argument, in thousandths
QueueVolts == {18000}
QueueBatteryLevels == {12500}
LockBatteryLevels == {10999, 12500}
MaxMotionTime == 1503     \* SpecMotion: the clock stops here
MotionTicks == {500, 501}
StoredMotionTimeouts == {1000}       \* motion_to in the store, in ms
MotionBatteryLevels == {12500}

MaxThresholdSamples == 2  \* SpecThreshold: readings adc_task produces
ThresholdVolts == {12400}
ThresholdCalls == {<<0, 11000, 10500>>, <<1, 13000, 12000>>, <<0, 5000, 4000>>,
                   <<2, 13000, 12000>>, <<1, 12000, 12000>>,
                   <<0, 20001, 12000>>, <<1, 12000, -1>>}
MaxBurst == 11            \* SpecSampling: readings adc_task produces
SamplingVolts == {12400}
PwmDuties == {-1, 0, 1, 50, 100, 101}  \* set_pwm arguments
PwmBatteryLevels == {10999, 11000, 12000, 13500}
MaxLevelReadings == 7     \* SpecLevel: readings delivered to the channel
LevelGaps == {100, 4900}
LevelBatteryLevels == {12500}
MutexBatteryLevels == {12500}

-----------------------------------------------------------------------------
(* Initial state: after app_main has initialised the subsystems and       *)
(* created the tasks.                                                      *)

(* cfg is the configuration nvs_load_config produces from the store. *)
Boot(cfg) ==
    /\ g_config = cfg
    /\ ctx = [ch \in Channels |-> channel_context_init(ch, cfg)]
    /\ now = 0
    /\ n_readings = 0
    /\ accepted = [ch \in Channels |-> <<>>]
    /\ adc_queue = [ch \in Channels |-> <<>>]
    /\ command_queue = [ch \in Channels |-> <<>>]
    /\ ctl = control_task_init
    /\ hw_state = hw_control_init
    /\ hw_mutex = "free"
    /\ ledc_duty = [ch \in Channels |-> 0]
    /\ motion_active = FALSE
    /\ last_motion_time = 0
    /\ gated = [ch \in Channels |-> -1]
    /\ evaluations = [ch \in Channels |-> <<>>]
    /\ received = [ch \in Channels |-> <<>>]
    /\ cli = cli_task_init
    /\ chk = check_locals
    /\ last_edge = -1
    /\ flt = ma_init
    /\ pushed = <<>>
    /\ outs = <<>>

(* First boot: the store is empty and every value is its default. *)
InitProgram == Boot(nvs_load_config)

-----------------------------------------------------------------------------
(* SpecFilter: ma_add followed by ma_get, as process_channel calls them,   *)
(* on a filter that ma_init has initialised.                               *)

Changes(seq) == Cardinality({i \in 1..(Len(seq) - 1) : seq[i] # seq[i + 1]})

FilterPush(v) ==
    /\ Len(pushed) < MaxPushes
    /\ Changes(Append(pushed, v)) <= MaxChanges
    /\ flt' = ma_add(flt, v)
    /\ pushed' = Append(pushed, v)
    /\ outs' = Append(outs, ma_get(flt'))
    /\ UNCHANGED <<g_config, ctx, temp_raw, now, n_readings, sel, accepted,
                   adc_queue, command_queue, ctl, hw_state, hw_mutex,
                   ledc_duty, motion_active, last_motion_time, gated,
                   evaluations, received,
                   cli, chk, last_edge>>

InitFilter == InitProgram /\ temp_raw = 750 /\ sel = 0

NextFilter == \E v \in FilterSamples : FilterPush(v)

SpecFilter == InitFilter /\ [][NextFilter]_vars

-----------------------------------------------------------------------------
(* SpecChannel: the loop of one channel_proc_task.  Each step is one       *)
(* iteration on the next reading of its input queue; readings carry        *)
(* non-decreasing timestamps and the sensor temperature of the run.        *)

ChannelReceive(v, gap) ==
    /\ n_readings < MaxReadings
    /\ now' = now + gap
    /\ n_readings' = n_readings + 1
    /\ channel_proc_iteration(sel,
           [battery_voltage_mv |-> v, temperature_raw |-> temp_raw,
            timestamp_ms |-> now'])
    /\ UNCHANGED <<flt, pushed, outs, g_config, temp_raw, sel, adc_queue, ctl,
                   hw_state, hw_mutex, ledc_duty, motion_active,
                   last_motion_time, gated,
                   received,
                   cli, chk, last_edge>>

InitChannel == InitProgram /\ temp_raw \in TempRaws /\ sel \in Channels

NextChannel == \E v \in ReadingVolts, gap \in ReadingGaps : ChannelReceive(v, gap)

SpecChannel == InitChannel /\ [][NextChannel]_vars

-----------------------------------------------------------------------------
(* Spec: the tasks of the running system, interleaved.                     *)

Tick ==
    /\ now < MaxTicks * TickMs
    /\ now' = now + TickMs
    /\ UNCHANGED <<flt, pushed, outs, g_config, ctx, temp_raw, n_readings, sel,
                   accepted, adc_queue, command_queue, ctl, hw_state, hw_mutex,
                   ledc_duty, motion_active, last_motion_time, gated,
                   evaluations, received,
                   cli, chk, last_edge>>

(* One iteration of adc_task's loop: a reading stamped with the tick count *)
(* is offered to both channel queues.                                      *)
adc_task(v) ==
    /\ n_readings < MaxSamples
    /\ n_readings' = n_readings + 1
    /\ LET reading == [battery_voltage_mv |-> v, temperature_raw |-> temp_raw,
                       timestamp_ms |-> now]
       IN  adc_queue' = [ch \in Channels |->
                            xQueueSend(adc_queue[ch], reading, QUEUE_SIZE)]
    /\ UNCHANGED <<flt, pushed, outs, g_config, ctx, temp_raw, now, sel,
                   accepted, command_queue, ctl, hw_state, hw_mutex, ledc_duty,
                   motion_active, last_motion_time, gated,
                   evaluations, received,
                   cli, chk, last_edge>>

(* One iteration of channel_proc_task's loop, once xQueueReceive returns. *)
channel_proc_task(ch) ==
    /\ adc_queue[ch] # <<>>
    /\ adc_queue' = [adc_queue EXCEPT ![ch] = Tail(@)]
    /\ channel_proc_iteration(ch, Head(adc_queue[ch]))
    /\ UNCHANGED <<flt, pushed, outs, g_config, temp_raw, now, n_readings, sel,
                   ctl, hw_state, hw_mutex, ledc_duty, motion_active,
                   last_motion_time, gated,
                   received,
                   cli, chk, last_edge>>

control_task_receive_discard(ch) ==
    /\ ctl.pc = (IF ch = 0 THEN "recv0" ELSE "recv1")
    /\ LET next == IF ch = 0 THEN "recv1" ELSE "arbitrate"
       IN  IF command_queue[ch] # <<>>
           THEN /\ ctl' = [ctl EXCEPT !.ch_updated[ch] = TRUE, !.pc = next]
                /\ command_queue' = [command_queue EXCEPT ![ch] = Tail(@)]
                /\ received' = [received EXCEPT
                       ![ch] = Append(@, Head(command_queue[ch]))]
           ELSE /\ ctl' = [ctl EXCEPT !.pc = next]
                /\ UNCHANGED <<command_queue, received>>
    /\ UNCHANGED <<flt, pushed, outs, g_config, ctx, temp_raw, now,
                   n_readings, sel, accepted, adc_queue, hw_state, hw_mutex,
                   ledc_duty, motion_active, last_motion_time, gated,
                   evaluations, cli, chk, last_edge>>

(* control_task: xQueueReceive on the command queue of channel ch; with   *)
(* an empty queue the call times out and the retained command stays.      *)
control_task_receive(ch) ==
    /\ ctl.pc = (IF ch = 0 THEN "recv0" ELSE "recv1")
    /\ LET next == IF ch = 0 THEN "recv1" ELSE "arbitrate"
       IN  IF command_queue[ch] # <<>>
           THEN /\ ctl' = [ctl EXCEPT !.ch_cmd[ch] = Head(command_queue[ch]),
                                      !.ch_updated[ch] = TRUE,
                                      !.pc = next]
                /\ command_queue' = [command_queue EXCEPT ![ch] = Tail(@)]
                /\ received' = [received EXCEPT
                       ![ch] = Append(@, Head(command_queue[ch]))]
           ELSE /\ ctl' = [ctl EXCEPT !.pc = next]
                /\ UNCHANGED <<command_queue, received>>
    /\ UNCHANGED <<flt, pushed, outs, g_config, ctx, temp_raw, now, n_readings,
                   sel, accepted, adc_queue, hw_state, hw_mutex, ledc_duty,
                   motion_active, last_motion_time, gated,
                   evaluations,
                   cli, chk, last_edge>>

(* control_task after check_motion_timeout has returned motion_override:   *)
(* hw_state.motion_detected, the dimming level and the two enable flags of *)
(* this cycle, from the live battery reading.                              *)
control_task_decide(battery, motion_override) ==
    LET duty_percent == calculate_dimming_level(battery, motion_override)
    IN  /\ hw_state' = [hw_state EXCEPT !.motion_detected = motion_override]
        /\ ctl' = [ctl EXCEPT
               !.battery_mv = battery,
               !.motion_override = motion_override,
               !.duty_percent = duty_percent,
               !.ch_enable = [ch \in Channels |->
                                 channel_enable(ctl.ch_cmd[ch], duty_percent)],
               !.pc = "apply"]

(* control_task: the live battery reading, the motion check, the dimming  *)
(* level and the two enable flags of this cycle.                          *)
control_task_arbitrate(battery) ==
    /\ ctl.pc = "arbitrate"
    /\ motion_active' = check_motion_timeout
    /\ control_task_decide(battery, check_motion_timeout)
    /\ UNCHANGED <<flt, pushed, outs, g_config, ctx, temp_raw, now, n_readings,
                   sel, accepted, adc_queue, command_queue, hw_mutex, ledc_duty,
                   last_motion_time, gated,
                   evaluations, received,
                   cli, chk, last_edge>>

control_task_apply_every_cycle ==
    /\ ctl.pc = "apply"
    /\ apply_hardware_control(ctl.ch_enable[0], ctl.ch_enable[1],
                              ctl.duty_percent)
    /\ gated' = [ch \in Channels |->
                    IF hw_mutex = "free" /\ ~ctl.ch_enable[ch]
                       /\ ctl.ch_cmd[ch].output_state
                    THEN Len(accepted[ch]) ELSE gated[ch]]
    /\ ctl' = [pc |-> "recv0", ch_cmd |-> ctl.ch_cmd,
               ch_updated |-> loop_locals.ch_updated,
               battery_mv |-> loop_locals.battery_mv,
               motion_override |-> loop_locals.motion_override,
               duty_percent |-> loop_locals.duty_percent,
               ch_enable |-> loop_locals.ch_enable]
    /\ UNCHANGED <<flt, pushed, outs, g_config, ctx, temp_raw, now,
                   n_readings, sel, accepted, adc_queue, command_queue,
                   hw_mutex, motion_active, last_motion_time, evaluations,
                   received, cli, chk, last_edge>>

(* control_task: the hardware update of this cycle, then vTaskDelay and   *)
(* the top of the next iteration.                                         *)
control_task_apply ==
    /\ ctl.pc = "apply"
    /\ LET update == ctl.ch_updated[0] \/ ctl.ch_updated[1] \/ ctl.motion_override
       IN  /\ IF update
              THEN apply_hardware_control(ctl.ch_enable[0], ctl.ch_enable[1],
                                          ctl.duty_percent)
              ELSE UNCHANGED <<hw_state, ledc_duty>>
           /\ gated' = [ch \in Channels |->
                          IF update /\ hw_mutex = "free" /\ ~ctl.ch_enable[ch]
                             /\ ctl.ch_cmd[ch].output_state
                          THEN Len(accepted[ch]) ELSE gated[ch]]
    /\ ctl' = [pc |-> "recv0", ch_cmd |-> ctl.ch_cmd,
               ch_updated |-> loop_locals.ch_updated,
               battery_mv |-> loop_locals.battery_mv,
               motion_override |-> loop_locals.motion_override,
               duty_percent |-> loop_locals.duty_percent,
               ch_enable |-> loop_locals.ch_enable]
    /\ UNCHANGED <<flt, pushed, outs, g_config, ctx, temp_raw, now, n_readings,
                   sel, accepted, adc_queue, command_queue, hw_mutex,
                   motion_active, last_motion_time,
                   evaluations, received,
                   cli, chk, last_edge>>

(* The set_pwm console command: both duties within 0..100 and half <= full, *)
(* otherwise the command fails and nothing is stored.                       *)
cmd_set_pwm(half_duty, full_duty) ==
    /\ IF \/ half_duty < 0 \/ half_duty > 100
          \/ full_duty < 0 \/ full_duty > 100
          \/ half_duty > full_duty
       THEN UNCHANGED g_config
       ELSE g_config' = nvs_set_pwm_duties(half_duty, full_duty)
    /\ UNCHANGED <<flt, pushed, outs, ctx, temp_raw, now, n_readings, sel,
                   accepted, adc_queue, command_queue, ctl, hw_state, hw_mutex,
                   ledc_duty, motion_active, last_motion_time, gated,
                   evaluations, received,
                   cli, chk, last_edge>>

Init == InitProgram /\ temp_raw = 750 /\ sel = 0

Next ==
    \/ Tick
    \/ \E v \in AdcVolts : adc_task(v)
    \/ \E ch \in Channels : channel_proc_task(ch)
    \/ \E ch \in Channels : control_task_receive(ch)
    \/ \E battery \in BatteryLevels : control_task_arbitrate(battery)
    \/ control_task_apply
    \/ motion_sensor_isr_handler
    \/ \E half_duty \in PwmInputs, full_duty \in PwmInputs :
           cmd_set_pwm(half_duty, full_duty)

Spec == Init /\ [][Next]_vars

-----------------------------------------------------------------------------
(* One iteration of adc_task's loop, period ms after the previous one      *)
(* (vTaskDelayUntil): the reading carries the battery voltage v, the       *)
(* temperature sensor's output raw and the tick count.                     *)
adc_task_period(v, raw, period) ==
    /\ now' = now + period
    /\ temp_raw' = raw
    /\ n_readings' = n_readings + 1
    /\ LET reading == [battery_voltage_mv |-> v, temperature_raw |-> raw,
                       timestamp_ms |-> now']
       IN  adc_queue' = [ch \in Channels |->
                            xQueueSend(adc_queue[ch], reading, QUEUE_SIZE)]
    /\ UNCHANGED <<flt, pushed, outs, g_config, ctx, sel, accepted,
                   command_queue, ctl, hw_state, hw_mutex, ledc_duty,
                   motion_active, last_motion_time, gated, evaluations,
                   received,
                   cli, chk, last_edge>>

-----------------------------------------------------------------------------
(* SpecCompensation: the loop of one channel_proc_task on readings whose   *)
(* temperature varies, started with a stored coefficient.                  *)

CompensationReceive(raw) ==
    /\ n_readings < MaxEvals
    /\ now' = now + ADC_SAMPLE_INTERVAL_MS
    /\ temp_raw' = raw
    /\ n_readings' = n_readings + 1
    /\ channel_proc_iteration(sel,
           [battery_voltage_mv |-> 12400, temperature_raw |-> raw,
            timestamp_ms |-> now'])
    /\ UNCHANGED <<flt, pushed, outs, g_config, sel, adc_queue, ctl,
                   hw_state, hw_mutex, ledc_duty, motion_active,
                   last_motion_time, gated, received,
                   cli, chk, last_edge>>

InitCompensation ==
    /\ \E k \in CoeffMillis :
           Boot([nvs_load_config EXCEPT !.temp_coefficient = F32Milli(k)])
    /\ temp_raw = 750
    /\ sel \in Channels

NextCompensation == \E raw \in CompensationRaws : CompensationReceive(raw)

SpecCompensation == InitCompensation /\ [][NextCompensation]_vars

-----------------------------------------------------------------------------
(* SpecConfig: adc_task, both channel tasks and the console commands that  *)
(* change the thresholds and the temperature coefficient.                  *)

ConfigSample(v, raw) ==
    /\ n_readings < MaxConfigSamples
    /\ adc_task_period(v, raw, ConfigGapMs)

(* The set_threshold console command. *)
cmd_set_threshold(channel, th_on_mv, th_off_mv) ==
    /\ IF \/ channel < 0 \/ channel > 1
          \/ th_on_mv <= th_off_mv
          \/ th_on_mv < 0 \/ th_on_mv > 20000
          \/ th_off_mv < 0 \/ th_off_mv > 20000
       THEN UNCHANGED g_config
       ELSE g_config' = IF channel = 0
                        THEN nvs_set_ch0_thresholds(th_on_mv, th_off_mv)
                        ELSE nvs_set_ch1_thresholds(th_on_mv, th_off_mv)
    /\ UNCHANGED <<flt, pushed, outs, ctx, temp_raw, now, n_readings, sel,
                   accepted, adc_queue, command_queue, ctl, hw_state, hw_mutex,
                   ledc_duty, motion_active, last_motion_time, gated,
                   evaluations, received,
                   cli, chk, last_edge>>

(* The set_temp_coeff console command; coeff is the float of its argument. *)
cmd_set_temp_coeff(coeff) ==
    /\ IF F32Lt(coeff, F32Milli(-100)) \/ F32Lt(F32Milli(100), coeff)
       THEN UNCHANGED g_config
       ELSE g_config' = nvs_set_temp_coefficient(coeff)
    /\ UNCHANGED <<flt, pushed, outs, ctx, temp_raw, now, n_readings, sel,
                   accepted, adc_queue, command_queue, ctl, hw_state, hw_mutex,
                   ledc_duty, motion_active, last_motion_time, gated,
                   evaluations, received,
                   cli, chk, last_edge>>

InitConfig == InitProgram /\ temp_raw = 750 /\ sel = 0

NextConfig ==
    \/ \E v \in ConfigVolts, raw \in ConfigRaws : ConfigSample(v, raw)
    \/ \E ch \in Channels : channel_proc_task(ch)
    \/ \E channel \in Channels, th \in ThresholdInputs :
           cmd_set_threshold(channel, th[1], th[2])
    \/ \E k \in CoeffInputs : cmd_set_temp_coeff(F32Milli(k))

SpecConfig == InitConfig /\ [][NextConfig]_vars

-----------------------------------------------------------------------------
(* SpecQueue: adc_task at its sample period, both channel tasks and the    *)
(* control task, in any interleaving.                                      *)

QueueSample(v) ==
    /\ n_readings < MaxPeriods
    /\ adc_task_period(v, temp_raw, ADC_SAMPLE_INTERVAL_MS)

InitQueue == InitProgram /\ temp_raw = 750 /\ sel = 0

NextQueue ==
    \/ \E v \in QueueVolts : QueueSample(v)
    \/ \E ch \in Channels : channel_proc_task(ch)
    \/ \E ch \in Channels : control_task_receive(ch)
    \/ \E battery \in QueueBatteryLevels : control_task_arbitrate(battery)
    \/ control_task_apply

SpecQueue == InitQueue /\ [][NextQueue]_vars

-----------------------------------------------------------------------------
(* SpecLock: the control task, whose hardware update is divided where it   *)
(* takes and gives hw_mutex, and the console commands status, shutdown and *)
(* motion of cli_task, with adc_task and both channel tasks.               *)

(* control_task in apply_hardware_control: xSemaphoreTake succeeds. *)
control_task_take ==
    /\ ctl.pc = "apply"
    /\ ctl.ch_updated[0] \/ ctl.ch_updated[1] \/ ctl.motion_override
    /\ hw_mutex = "free"
    /\ hw_mutex' = "control"
    /\ ctl' = [ctl EXCEPT !.pc = "locked"]
    /\ UNCHANGED <<flt, pushed, outs, g_config, ctx, temp_raw, now,
                   n_readings, sel, accepted, adc_queue, command_queue,
                   hw_state, ledc_duty, motion_active, last_motion_time,
                   gated, evaluations, received, cli, chk, last_edge>>

(* control_task in apply_hardware_control: the update under the lock,      *)
(* xSemaphoreGive, then vTaskDelay and the top of the next iteration.      *)
control_task_give ==
    /\ ctl.pc = "locked"
    /\ hardware_update(ctl.ch_enable[0], ctl.ch_enable[1], ctl.duty_percent)
    /\ hw_mutex' = "free"
    /\ gated' = [ch \in Channels |->
                    IF ~ctl.ch_enable[ch] /\ ctl.ch_cmd[ch].output_state
                    THEN Len(accepted[ch]) ELSE gated[ch]]
    /\ ctl' = [pc |-> "recv0", ch_cmd |-> ctl.ch_cmd,
               ch_updated |-> loop_locals.ch_updated,
               battery_mv |-> loop_locals.battery_mv,
               motion_override |-> loop_locals.motion_override,
               duty_percent |-> loop_locals.duty_percent,
               ch_enable |-> loop_locals.ch_enable]
    /\ UNCHANGED <<flt, pushed, outs, g_config, ctx, temp_raw, now,
                   n_readings, sel, accepted, adc_queue, command_queue,
                   motion_active, last_motion_time, evaluations, received,
                   cli, chk, last_edge>>

(* The values an uninitialised hw_control_t can hold. *)
HwControlValues ==
    [ch0_state : BOOLEAN, ch1_state : BOOLEAN, pwm_duty : {0, 255},
     motion_detected : BOOLEAN]

(* The status command in control_get_state: xSemaphoreTake.  When the     *)
(* lock cannot be taken within the timeout, *state is not written and     *)
(* cmd_status prints its local as it was.                                 *)
control_get_state_take ==
    /\ cli.pc = "idle"
    /\ IF hw_mutex = "free"
       THEN /\ hw_mutex' = "cli"
            /\ cli' = [cli EXCEPT !.pc = "copy", !.cmd = "status",
                                  !.took_mutex = TRUE]
       ELSE /\ \E garbage \in HwControlValues :
                   cli' = [cli EXCEPT !.cmd = "status", !.ret = 0,
                                      !.at = now, !.hw_state = garbage,
                                      !.took_mutex = FALSE]
            /\ UNCHANGED hw_mutex
    /\ UNCHANGED <<flt, pushed, outs, g_config, ctx, temp_raw, now,
                   n_readings, sel, accepted, adc_queue, command_queue, ctl,
                   hw_state, ledc_duty, motion_active, last_motion_time,
                   gated, evaluations, received, chk, last_edge>>

control_get_state_give_keep ==
    /\ cli.pc = "copy"
    /\ cli' = [cli EXCEPT !.pc = "idle", !.ret = 0, !.at = now,
                          !.hw_state = hw_state]
    /\ UNCHANGED <<flt, pushed, outs, g_config, ctx, temp_raw, now,
                   n_readings, sel, accepted, adc_queue, command_queue, ctl,
                   hw_state, hw_mutex, ledc_duty, motion_active,
                   last_motion_time, gated, evaluations, received, chk,
                   last_edge>>

(* The status command in control_get_state: *state = hw_state under the   *)
(* lock, then xSemaphoreGive.                                             *)
control_get_state_give ==
    /\ cli.pc = "copy"
    /\ cli' = [cli EXCEPT !.pc = "idle", !.ret = 0, !.at = now,
                          !.hw_state = hw_state]
    /\ hw_mutex' = "free"
    /\ UNCHANGED <<flt, pushed, outs, g_config, ctx, temp_raw, now,
                   n_readings, sel, accepted, adc_queue, command_queue, ctl,
                   hw_state, ledc_duty, motion_active, last_motion_time,
                   gated, evaluations, received, chk, last_edge>>

(* The shutdown command: control_emergency_shutdown.  Both outputs and    *)
(* hw_state are cleared when hw_mutex is taken; when it cannot be taken   *)
(* within the timeout the function returns without a write.               *)
control_emergency_shutdown ==
    /\ cli.pc = "idle"
    /\ IF hw_mutex = "free"
       THEN /\ ledc_duty' = [ch \in Channels |-> percent_to_duty(0)]
            /\ hw_state' = [hw_state EXCEPT !.ch0_state = FALSE,
                                             !.ch1_state = FALSE,
                                             !.pwm_duty = 0]
       ELSE UNCHANGED <<hw_state, ledc_duty>>
    /\ cli' = [cli EXCEPT !.cmd = "shutdown", !.ret = 0, !.at = now,
                          !.took_mutex = (hw_mutex = "free")]
    /\ UNCHANGED <<flt, pushed, outs, g_config, ctx, temp_raw, now,
                   n_readings, sel, accepted, adc_queue, command_queue, ctl,
                   hw_mutex, motion_active, last_motion_time, gated,
                   evaluations, received, chk, last_edge>>

(* The motion command in control_trigger_motion: motion_active = true. *)
control_trigger_motion_flag ==
    /\ cli.pc = "idle"
    /\ motion_active' = TRUE
    /\ cli' = [cli EXCEPT !.pc = "motion_time", !.cmd = "motion"]
    /\ UNCHANGED <<flt, pushed, outs, g_config, ctx, temp_raw, now,
                   n_readings, sel, accepted, adc_queue, command_queue, ctl,
                   hw_state, hw_mutex, ledc_duty, last_motion_time, gated,
                   evaluations, received, chk, last_edge>>

(* The motion command in control_trigger_motion: last_motion_time is set  *)
(* to the tick count, and the command returns.                            *)
control_trigger_motion_time ==
    /\ cli.pc = "motion_time"
    /\ last_motion_time' = now
    /\ cli' = [cli EXCEPT !.pc = "idle", !.ret = 0, !.at = now]
    /\ UNCHANGED <<flt, pushed, outs, g_config, ctx, temp_raw, now,
                   n_readings, sel, accepted, adc_queue, command_queue, ctl,
                   hw_state, hw_mutex, ledc_duty, motion_active, gated,
                   evaluations, received, chk, last_edge>>

InitLock == InitProgram /\ temp_raw = 750 /\ sel = 0

NextLock ==
    \/ Tick
    \/ \E v \in AdcVolts : adc_task(v)
    \/ \E ch \in Channels : channel_proc_task(ch)
    \/ \E ch \in Channels : control_task_receive(ch)
    \/ \E battery \in LockBatteryLevels : control_task_arbitrate(battery)
    \/ control_task_apply
    \/ control_task_take
    \/ control_task_give
    \/ control_get_state_take
    \/ control_get_state_give
    \/ control_emergency_shutdown
    \/ control_trigger_motion_flag
    \/ control_trigger_motion_time

SpecLock == InitLock /\ [][NextLock]_vars

-----------------------------------------------------------------------------
(* SpecMotion: the motion interrupt, the motion command and the control    *)
(* task, whose check_motion_timeout is divided at each access to the       *)
(* volatile variables motion_active and last_motion_time, against a clock. *)

MotionTick(d) ==
    /\ now + d <= MaxMotionTime
    /\ now' = now + d
    /\ UNCHANGED <<flt, pushed, outs, g_config, ctx, temp_raw, n_readings,
                   sel, accepted, adc_queue, command_queue, ctl, hw_state,
                   hw_mutex, ledc_duty, motion_active, last_motion_time,
                   gated, evaluations, received, cli, chk, last_edge>>

(* control_task: the live battery reading, then check_motion_timeout reads *)
(* motion_active and returns false when it is clear.                       *)
control_task_check_flag(battery) ==
    /\ ctl.pc = "arbitrate"
    /\ chk' = [chk EXCEPT !.start = now,
                          !.edge_at = last_edge,
                          !.trigger_at = IF cli.cmd = "motion" /\ cli.pc = "idle"
                                         THEN cli.at ELSE -1]
    /\ IF ~motion_active
       THEN control_task_decide(battery, FALSE)
       ELSE /\ ctl' = [ctl EXCEPT !.battery_mv = battery, !.pc = "check_time"]
            /\ UNCHANGED hw_state
    /\ UNCHANGED <<flt, pushed, outs, g_config, ctx, temp_raw, now,
                   n_readings, sel, accepted, adc_queue, command_queue,
                   hw_mutex, ledc_duty, motion_active, last_motion_time,
                   gated, evaluations, received, cli, last_edge>>

(* check_motion_timeout: now and motion_timeout are read. *)
control_task_check_time ==
    /\ ctl.pc = "check_time"
    /\ chk' = [chk EXCEPT !.now = now,
                          !.motion_timeout = nvs_get_motion_timeout]
    /\ ctl' = [ctl EXCEPT !.pc = "check_compare"]
    /\ UNCHANGED <<flt, pushed, outs, g_config, ctx, temp_raw, now,
                   n_readings, sel, accepted, adc_queue, command_queue,
                   hw_state, hw_mutex, ledc_duty, motion_active,
                   last_motion_time, gated, evaluations, received, cli,
                   last_edge>>

(* check_motion_timeout: last_motion_time is read and compared; within the *)
(* timeout the function returns true.                                      *)
control_task_check_compare ==
    /\ ctl.pc = "check_compare"
    /\ IF U32Sub(chk.now, last_motion_time) > chk.motion_timeout
       THEN /\ ctl' = [ctl EXCEPT !.pc = "check_expire"]
            /\ UNCHANGED hw_state
       ELSE control_task_decide(ctl.battery_mv, TRUE)
    /\ UNCHANGED <<flt, pushed, outs, g_config, ctx, temp_raw, now,
                   n_readings, sel, accepted, adc_queue, command_queue,
                   hw_mutex, ledc_duty, motion_active, last_motion_time,
                   gated, evaluations, received, cli, chk, last_edge>>

(* check_motion_timeout: motion_active = false, and false is returned. *)
control_task_check_expire ==
    /\ ctl.pc = "check_expire"
    /\ motion_active' = FALSE
    /\ control_task_decide(ctl.battery_mv, FALSE)
    /\ UNCHANGED <<flt, pushed, outs, g_config, ctx, temp_raw, now,
                   n_readings, sel, accepted, adc_queue, command_queue,
                   hw_mutex, ledc_duty, last_motion_time, gated, evaluations,
                   received, cli, chk, last_edge>>

InitMotion ==
    /\ \E t \in StoredMotionTimeouts :
           Boot([nvs_load_config EXCEPT !.motion_timeout_ms = t])
    /\ temp_raw = 750
    /\ sel = 0

NextMotion ==
    \/ \E d \in MotionTicks : MotionTick(d)
    \/ motion_sensor_isr_handler
    \/ control_trigger_motion_flag
    \/ control_trigger_motion_time
    \/ \E ch \in Channels : control_task_receive(ch)
    \/ \E battery \in MotionBatteryLevels : control_task_check_flag(battery)
    \/ control_task_check_time
    \/ control_task_check_compare
    \/ control_task_check_expire
    \/ control_task_apply

SpecMotion == InitMotion /\ [][NextMotion]_vars

-----------------------------------------------------------------------------
(* SpecThreshold: adc_task at its sample period, both channel tasks and   *)
(* the set_threshold command of the console task.  The command's two       *)
(* stores into g_config (nvs_set_ch0_thresholds / nvs_set_ch1_thresholds)  *)
(* are separate steps: no lock is held and the channel tasks run at a      *)
(* higher priority than the console task.                                  *)

ThresholdSample(v) ==
    /\ n_readings < MaxThresholdSamples
    /\ adc_task_period(v, temp_raw, ADC_SAMPLE_INTERVAL_MS)

(* cmd_set_threshold up to the first store of nvs_set_chX_thresholds: the  *)
(* arguments are validated; a rejected command returns 1, an accepted one  *)
(* stores th_on_mv into the addressed channel's field.                     *)
cmd_set_threshold_call(channel, th_on_mv, th_off_mv) ==
    /\ cli.pc = "idle"
    /\ IF \/ channel < 0 \/ channel > 1
          \/ th_on_mv <= th_off_mv
          \/ th_on_mv < 0 \/ th_on_mv > 20000
          \/ th_off_mv < 0 \/ th_off_mv > 20000
       THEN /\ cli' = [cli EXCEPT !.cmd = "set_threshold", !.ret = 1,
                                  !.channel = channel, !.th_on_mv = th_on_mv,
                                  !.th_off_mv = th_off_mv]
            /\ UNCHANGED g_config
       ELSE /\ cli' = [cli EXCEPT !.cmd = "set_threshold", !.pc = "store_off",
                                  !.channel = channel, !.th_on_mv = th_on_mv,
                                  !.th_off_mv = th_off_mv]
            /\ g_config' = IF channel = 0
                           THEN [g_config EXCEPT !.ch0_th_on_mv = th_on_mv]
                           ELSE [g_config EXCEPT !.ch1_th_on_mv = th_on_mv]
    /\ UNCHANGED <<flt, pushed, outs, ctx, temp_raw, now, n_readings, sel,
                   accepted, adc_queue, command_queue, ctl, hw_state,
                   hw_mutex, ledc_duty, motion_active, last_motion_time,
                   gated, evaluations, received, chk, last_edge>>

(* The second store of nvs_set_chX_thresholds, then nvs_save_config and    *)
(* return 0.                                                               *)
cmd_set_threshold_return ==
    /\ cli.pc = "store_off"
    /\ g_config' = IF cli.channel = 0
                   THEN [g_config EXCEPT !.ch0_th_off_mv = cli.th_off_mv]
                   ELSE [g_config EXCEPT !.ch1_th_off_mv = cli.th_off_mv]
    /\ cli' = [cli EXCEPT !.pc = "idle", !.ret = 0]
    /\ UNCHANGED <<flt, pushed, outs, ctx, temp_raw, now, n_readings, sel,
                   accepted, adc_queue, command_queue, ctl, hw_state,
                   hw_mutex, ledc_duty, motion_active, last_motion_time,
                   gated, evaluations, received, chk, last_edge>>

InitThreshold == InitProgram /\ temp_raw = 750 /\ sel = 0

NextThreshold ==
    \/ \E v \in ThresholdVolts : ThresholdSample(v)
    \/ \E ch \in Channels : channel_proc_task(ch)
    \/ \E call \in ThresholdCalls :
           cmd_set_threshold_call(call[1], call[2], call[3])
    \/ cmd_set_threshold_return

SpecThreshold == InitThreshold /\ [][NextThreshold]_vars

-----------------------------------------------------------------------------
(* SpecSampling: adc_task at its sample period and both channel tasks, in *)
(* any interleaving; nothing else runs.                                    *)

SamplingSample(v) ==
    /\ n_readings < MaxBurst
    /\ adc_task_period(v, temp_raw, ADC_SAMPLE_INTERVAL_MS)

InitSampling == InitProgram /\ temp_raw = 750 /\ sel = 0

NextSampling ==
    \/ \E v \in SamplingVolts : SamplingSample(v)
    \/ \E ch \in Channels : channel_proc_task(ch)

SpecSampling == InitSampling /\ [][NextSampling]_vars

-----------------------------------------------------------------------------
(* SpecPwm: the tasks of Spec with set_pwm arguments below, inside and    *)
(* above the accepted range.                                               *)

InitPwm == InitProgram /\ temp_raw = 750 /\ sel = 0

NextPwm ==
    \/ Tick
    \/ \E v \in AdcVolts : adc_task(v)
    \/ \E ch \in Channels : channel_proc_task(ch)
    \/ \E ch \in Channels : control_task_receive(ch)
    \/ \E battery \in PwmBatteryLevels : control_task_arbitrate(battery)
    \/ control_task_apply
    \/ motion_sensor_isr_handler
    \/ \E half_duty \in PwmDuties, full_duty \in PwmDuties :
           cmd_set_pwm(half_duty, full_duty)

SpecPwm == InitPwm /\ [][NextPwm]_vars

-----------------------------------------------------------------------------
(* SpecDefer: the loop of SpecChannel, which goes on as long as readings  *)
(* arrive (xQueueReceive with portMAX_DELAY in a while (1) loop).          *)

InitDefer == InitChannel

NextDefer == NextChannel

SpecDefer == InitDefer /\ [][NextDefer]_vars /\ WF_vars(NextDefer)

-----------------------------------------------------------------------------
(* SpecLevel: the loop of one channel_proc_task on readings of 18000 mV,  *)
(* and control_task, which runs its cycle forever (while (1) with          *)
(* vTaskDelay at the highest application priority).                        *)

LevelReceive(gap) ==
    /\ n_readings < MaxLevelReadings
    /\ now' = now + gap
    /\ n_readings' = n_readings + 1
    /\ channel_proc_iteration(sel,
           [battery_voltage_mv |-> 18000, temperature_raw |-> temp_raw,
            timestamp_ms |-> now'])
    /\ UNCHANGED <<flt, pushed, outs, g_config, temp_raw, sel, adc_queue, ctl,
                   hw_state, hw_mutex, ledc_duty, motion_active,
                   last_motion_time, gated, received, cli, chk, last_edge>>

(* A step of control_task's loop. *)
ControlCycle ==
    \/ \E ch \in Channels : control_task_receive(ch)
    \/ \E battery \in LevelBatteryLevels : control_task_arbitrate(battery)
    \/ control_task_apply

InitLevel == InitProgram /\ temp_raw = 750 /\ sel \in Channels

NextLevel ==
    \/ \E gap \in LevelGaps : LevelReceive(gap)
    \/ \E ch \in Channels : control_task_receive(ch)
    \/ \E battery \in LevelBatteryLevels : control_task_arbitrate(battery)
    \/ control_task_apply

SpecLevel == InitLevel /\ [][NextLevel]_vars /\ WF_vars(ControlCycle)

-----------------------------------------------------------------------------
(* SpecMutex: the three functions that take hw_mutex, each with its take  *)
(* and its give as separate steps, and a PWM driver whose calls can fail.  *)
(* set_pwm_duty returns early when ledc_set_duty or ledc_update_duty       *)
(* fails, which leaves the output's duty as it was; its callers go on to   *)
(* xSemaphoreGive.  A task that holds the mutex keeps running.             *)

(* The writes of apply_hardware_control under the lock; ok[ch] tells       *)
(* whether the driver calls for output ch succeed.                         *)
hardware_update_driver(ch0_enable, ch1_enable, duty_percent, ok) ==
    /\ hw_state' = [hw_state EXCEPT !.ch0_state = ch0_enable,
                                     !.ch1_state = ch1_enable,
                                     !.pwm_duty = duty_percent]
    /\ ledc_duty' =
         [ch \in Channels |->
            IF ~ok[ch] THEN ledc_duty[ch]
            ELSE IF (ch = 0 /\ ch0_enable) \/ (ch = 1 /\ ch1_enable)
                 THEN percent_to_duty(duty_percent)
                 ELSE percent_to_duty(0)]

(* control_task in apply_hardware_control: the update under the lock with  *)
(* the driver's outcome ok, xSemaphoreGive, then vTaskDelay and the top of *)
(* the next iteration.                                                     *)
control_task_give_driver(ok) ==
    /\ ctl.pc = "locked"
    /\ hardware_update_driver(ctl.ch_enable[0], ctl.ch_enable[1],
                              ctl.duty_percent, ok)
    /\ hw_mutex' = "free"
    /\ gated' = [ch \in Channels |->
                    IF ~ctl.ch_enable[ch] /\ ctl.ch_cmd[ch].output_state
                    THEN Len(accepted[ch]) ELSE gated[ch]]
    /\ ctl' = [pc |-> "recv0", ch_cmd |-> ctl.ch_cmd,
               ch_updated |-> loop_locals.ch_updated,
               battery_mv |-> loop_locals.battery_mv,
               motion_override |-> loop_locals.motion_override,
               duty_percent |-> loop_locals.duty_percent,
               ch_enable |-> loop_locals.ch_enable]
    /\ UNCHANGED <<flt, pushed, outs, g_config, ctx, temp_raw, now,
                   n_readings, sel, accepted, adc_queue, command_queue,
                   motion_active, last_motion_time, evaluations, received,
                   cli, chk, last_edge>>

(* control_task: a cycle with nothing to apply, or whose xSemaphoreTake    *)
(* times out, goes to the top of the next iteration.                       *)
control_task_skip ==
    /\ ctl.pc = "apply"
    /\ \/ ~(ctl.ch_updated[0] \/ ctl.ch_updated[1] \/ ctl.motion_override)
       \/ hw_mutex # "free"
    /\ ctl' = [pc |-> "recv0", ch_cmd |-> ctl.ch_cmd,
               ch_updated |-> loop_locals.ch_updated,
               battery_mv |-> loop_locals.battery_mv,
               motion_override |-> loop_locals.motion_override,
               duty_percent |-> loop_locals.duty_percent,
               ch_enable |-> loop_locals.ch_enable]
    /\ UNCHANGED <<flt, pushed, outs, g_config, ctx, temp_raw, now,
                   n_readings, sel, accepted, adc_queue, command_queue,
                   hw_state, hw_mutex, ledc_duty, motion_active,
                   last_motion_time, gated, evaluations, received, cli, chk,
                   last_edge>>

(* The shutdown command in control_emergency_shutdown: xSemaphoreTake;     *)
(* when it times out the function returns.                                 *)
control_emergency_shutdown_take ==
    /\ cli.pc = "idle"
    /\ IF hw_mutex = "free"
       THEN /\ hw_mutex' = "cli"
            /\ cli' = [cli EXCEPT !.pc = "shutdown_locked",
                                  !.cmd = "shutdown", !.took_mutex = TRUE]
       ELSE /\ cli' = [cli EXCEPT !.cmd = "shutdown", !.ret = 0, !.at = now,
                                  !.took_mutex = FALSE]
            /\ UNCHANGED hw_mutex
    /\ UNCHANGED <<flt, pushed, outs, g_config, ctx, temp_raw, now,
                   n_readings, sel, accepted, adc_queue, command_queue, ctl,
                   hw_state, ledc_duty, motion_active, last_motion_time,
                   gated, evaluations, received, chk, last_edge>>

(* control_emergency_shutdown under the lock: both outputs to duty 0 with  *)
(* the driver's outcome ok, hw_state cleared, xSemaphoreGive.              *)
control_emergency_shutdown_give(ok) ==
    /\ cli.pc = "shutdown_locked"
    /\ ledc_duty' = [ch \in Channels |->
                        IF ok[ch] THEN percent_to_duty(0) ELSE ledc_duty[ch]]
    /\ hw_state' = [hw_state EXCEPT !.ch0_state = FALSE,
                                     !.ch1_state = FALSE,
                                     !.pwm_duty = 0]
    /\ hw_mutex' = "free"
    /\ cli' = [cli EXCEPT !.pc = "idle", !.ret = 0, !.at = now]
    /\ UNCHANGED <<flt, pushed, outs, g_config, ctx, temp_raw, now,
                   n_readings, sel, accepted, adc_queue, command_queue, ctl,
                   motion_active, last_motion_time, gated, evaluations,
                   received, chk, last_edge>>

(* A step in which the holder of hw_mutex runs on to its xSemaphoreGive. *)
HolderStep ==
    \/ \E ok \in [Channels -> BOOLEAN] : control_task_give_driver(ok)
    \/ control_get_state_give
    \/ \E ok \in [Channels -> BOOLEAN] : control_emergency_shutdown_give(ok)

InitMutex == InitProgram /\ temp_raw = 750 /\ sel = 0

NextMutex ==
    \/ Tick
    \/ \E v \in AdcVolts : adc_task(v)
    \/ \E ch \in Channels : channel_proc_task(ch)
    \/ \E ch \in Channels : control_task_receive(ch)
    \/ \E battery \in MutexBatteryLevels : control_task_arbitrate(battery)
    \/ control_task_skip
    \/ control_task_take
    \/ \E ok \in [Channels -> BOOLEAN] : control_task_give_driver(ok)
    \/ control_get_state_take
    \/ control_get_state_give
    \/ control_emergency_shutdown_take
    \/ \E ok \in [Channels -> BOOLEAN] : control_emergency_shutdown_give(ok)

SpecMutex == InitMutex /\ [][NextMutex]_vars /\ WF_vars(HolderStep)

-----------------------------------------------------------------------------
(* Properties *)

Last(seq) == seq[Len(seq)]
NonDecreasing(seq) == \A i \in 1..(Len(seq) - 1) : seq[i] <= seq[i + 1]
RECURSIVE SumSlots(_, _)
SumSlots(buffer, n) == IF n = 0 THEN 0 ELSE buffer[n - 1] + SumSlots(buffer, n - 1)
Reported(ch) == IF ch = 0 THEN hw_state.ch0_state ELSE hw_state.ch1_state

(* C1: in every evaluation whose effective thresholds satisfy on > off, the *)
(* output goes OFF -> ON only with filtered voltage >= on, ON -> OFF only   *)
(* with filtered voltage < off, and a filtered voltage in [off, on) leaves  *)
(* the output as it was.                                                    *)
C1_Hysteresis ==
    [][\A ch \in Channels :
         LET old == ctx[ch].state.output_state
             new == ctx'[ch].state.output_state
             fv == ctx'[ch].state.filtered_voltage
             on == ctx'[ch].th_on_mv
             off == ctx'[ch].th_off_mv
         IN  (ctx'[ch] # ctx[ch] /\ on > off) =>
                /\ (~old /\ new) => fv >= on
                /\ (old /\ ~new) => fv < off
                /\ (fv >= off /\ fv < on) => new = old]_vars

(* C1 witness: the channel has been switched ON and its latest filtered    *)
(* voltage lies inside the band, where it stays ON.                        *)
C1_Witness ==
    \E ch \in Channels :
        /\ Len(accepted[ch]) = 1
        /\ ctx[ch].state.output_state
        /\ ctx[ch].state.filtered_voltage >= ctx[ch].th_off_mv
        /\ ctx[ch].state.filtered_voltage < ctx[ch].th_on_mv
        /\ ctx[ch].state.last_change_time < now

(* C2: any two consecutive output-state changes of a channel happen at     *)
(* readings whose timestamps are at least 5000 ms apart.                   *)
C2_Debounce ==
    \A ch \in Channels :
        \A i \in 1..(Len(accepted[ch]) - 1) :
            accepted[ch][i + 1] - accepted[ch][i] >= 5000

(* C2 witness: a channel has changed state twice, exactly 5000 ms apart.   *)
C2_Witness ==
    \E ch \in Channels :
        /\ Len(accepted[ch]) >= 2
        /\ accepted[ch][2] - accepted[ch][1] = 5000

(* C3: whenever the live battery voltage of a cycle is below 11000 mV the  *)
(* duty it computes is 0 and both channel enable flags are false.          *)
C3_OverDischarge ==
    (ctl.pc = "apply" /\ ctl.battery_mv < 11000) =>
        /\ ctl.duty_percent = 0
        /\ ~ctl.ch_enable[0]
        /\ ~ctl.ch_enable[1]

DimmingTable(b, half, full) ==
    IF b >= 13500 THEN full
    ELSE IF b >= 12000 THEN half
    ELSE IF b >= 11000 THEN CDiv(half, 2)
    ELSE 0

(* C4: with motion override inactive the duty a cycle computes is full at  *)
(* b >= 13500, half at 12000 <= b < 13500, half / 2 at 11000 <= b < 12000  *)
(* and 0 below 11000, for the configured duties of that cycle.             *)
C4_DimmingLevels ==
    [][(ctl.pc = "arbitrate" /\ ctl'.pc = "apply" /\ ~ctl'.motion_override) =>
          ctl'.duty_percent = DimmingTable(ctl'.battery_mv,
                                           g_config.pwm_half_duty,
                                           g_config.pwm_full_duty)]_vars

(* C4 witness: a cycle without motion at 11999 mV computed 25 = 50 / 2.    *)
C4_Witness ==
    /\ ctl.pc = "apply"
    /\ ~ctl.motion_override
    /\ ctl.battery_mv = 11999
    /\ g_config.pwm_half_duty = 50
    /\ ctl.duty_percent = 25

C6_EnableFlags ==
    ctl.pc = "apply" =>
        \A ch \in Channels :
            ctl.ch_enable[ch] <=>
                (ctl.ch_cmd[ch].output_state /\ ctl.duty_percent > 0)

(* C6 witness: a channel whose retained command is ON is computed disabled *)
(* by a cycle whose duty is 0, while the other channel's command is OFF.   *)
C6_Witness ==
    /\ ctl.pc = "apply"
    /\ ctl.ch_cmd[0].output_state
    /\ ~ctl.ch_cmd[1].output_state
    /\ ctl.duty_percent = 0
    /\ ~ctl.ch_enable[0]

C8_Converges ==
    \A v \in FilterSamples :
        ( /\ Len(pushed) >= 16
          /\ \A i \in (Len(pushed) - 15)..Len(pushed) : pushed[i] = v )
        => Last(outs) = v

(* C8 witness: 17 pushes of one value after a history that began with      *)
(* another value.                                                          *)
C8_Witness ==
    /\ Len(pushed) >= 18
    /\ pushed[1] # Last(pushed)
    /\ \A i \in (Len(pushed) - 16)..Len(pushed) : pushed[i] = Last(pushed)
    /\ Last(outs) = Last(pushed)

(* C9: a non-decreasing sequence of samples pushed into a fresh filter     *)
(* gives a non-decreasing sequence of outputs.                             *)
C9_Monotone == NonDecreasing(pushed) => NonDecreasing(outs)

(* C9 witness: a non-decreasing run through three sample values, long      *)
(* enough for the write index to wrap.                                     *)
C9_Witness ==
    /\ NonDecreasing(pushed)
    /\ Len(pushed) >= 18
    /\ Changes(pushed) = 2
    /\ outs[1] < Last(outs)

(* C10: the running sum equals the sum of the 16 slots, the write index is *)
(* within 0..15, the fill count is 0 before the first push and 16 after    *)
(* it, and the reported average is sum / count cut toward zero.            *)
C10_FilterInvariant ==
    /\ flt.sum = SumSlots(flt.buffer, 16)
    /\ flt.index \in 0..15
    /\ (pushed = <<>>) => (flt.count = 0 /\ ~flt.initialized)
    /\ (pushed # <<>>) => flt.count = 16
    /\ (flt.count > 0) =>
          LET q == Last(outs)
          IN  /\ (flt.sum >= 0) => (q * flt.count <= flt.sum
                                    /\ flt.sum < (q + 1) * flt.count)
              /\ (flt.sum < 0) => (q * flt.count >= flt.sum
                                   /\ flt.sum > (q - 1) * flt.count)

(* C10 witness: the write index has wrapped and the negative sum is not a  *)
(* multiple of the fill count.                                             *)
C10_Witness ==
    /\ Len(pushed) = 18
    /\ flt.index = 1
    /\ flt.sum < 0
    /\ flt.sum % 16 # 0

-----------------------------------------------------------------------------
(* Properties of the filter window, the temperature compensation, the      *)
(* command queues and the independence of the channels                     *)

(* The entry k places back in the window after n pushes: the sample pushed *)
(* k pushes before the n-th, or the first sample for places before it.     *)
WindowEntry(n, k) == pushed[IF n - k >= 1 THEN n - k ELSE 1]

RECURSIVE WindowSum(_, _)
WindowSum(n, k) ==
    IF k = 0 THEN 0 ELSE WindowEntry(n, k - 1) + WindowSum(n, k - 1)

(* q is sum / d with the fraction discarded, d > 0. *)
TruncatedQuotient(q, sum, d) ==
    /\ (sum >= 0) => (q * d <= sum /\ sum < (q + 1) * d)
    /\ (sum < 0) => (q * d >= sum /\ sum > (q - 1) * d)

(* C11: the output after the n-th push is the sum of the last 16 samples,  *)
(* places before the first sample counting as the first sample, divided by *)
(* 16 and cut toward zero; the first push returns its input; the 16 slots  *)
(* hold exactly that window, so each push has evicted the oldest entry.    *)
C11_Window ==
    /\ \A n \in 1..Len(pushed) :
           TruncatedQuotient(outs[n], WindowSum(n, 16), 16)
    /\ (pushed # <<>>) =>
           /\ outs[1] = pushed[1]
           /\ flt.sum = WindowSum(Len(pushed), 16)
           /\ \A k \in 0..15 :
                  flt.buffer[(flt.index + 15 - k) % 16]
                      = WindowEntry(Len(pushed), k)

(* C11 witness: the window has moved past the first two samples, the last  *)
(* push evicted an entry different from the sample it added, and the       *)
(* negative window sum is not a multiple of 16.                            *)
C11_Witness ==
    /\ Len(pushed) >= 18
    /\ pushed[1] # pushed[2]
    /\ pushed[Len(pushed) - 16] # Last(pushed)
    /\ WindowSum(Len(pushed), 16) < 0
    /\ WindowSum(Len(pushed), 16) % 16 # 0

(* -40 <= (raw - 500) / 10 <= 125 *)
InRange(raw) == raw >= 100 /\ raw <= 1750

(* The shift an evaluation applied to the ON threshold. *)
Shift(e) == e.th_on_mv - e.cfg.th_on_mv

(* coeff * ((raw - 500) / 10 - 25) * 1000 in float, as an int32_t. *)
ShiftAt(coeff, raw) ==
    F32ToInt32(F32Mul(F32Mul(coeff,
                             F32Sub(F32Div(F32Sub(F32FromInt(raw), F32_500),
                                           F32_10), F32_25)),
                      F32_1000))

CompensationAt(coeff, raw) == IF InRange(raw) THEN ShiftAt(coeff, raw) ELSE 0

(* n / d rounded to the nearest integer, halves away from zero, d > 0. *)
RoundedQuotient(n, d) ==
    IF n >= 0 THEN (2 * n + d) \div (2 * d) ELSE -((2 * (-n) + d) \div (2 * d))

(* C12: in every evaluation the effective thresholds are as far apart as   *)
(* the configured ones.                                                    *)
C12_GapInvariant ==
    \A ch \in Channels :
        \A i \in 1..Len(evaluations[ch]) :
            LET e == evaluations[ch][i]
            IN  e.th_on_mv - e.th_off_mv = e.cfg.th_on_mv - e.cfg.th_off_mv

(* C12 witness: two evaluations of a channel shifted its thresholds by     *)
(* different non-zero amounts.                                             *)
C12_Witness ==
    \E ch \in Channels :
        /\ Len(evaluations[ch]) = 2
        /\ Shift(evaluations[ch][1]) # 0
        /\ Shift(evaluations[ch][2]) # 0
        /\ Shift(evaluations[ch][1]) # Shift(evaluations[ch][2])
        /\ evaluations[ch][2].th_off_mv # evaluations[ch][2].cfg.th_off_mv

(* C13: the shift at 25 + dT degrees is the negation of the shift at       *)
(* 25 - dT degrees, and the shift at 25 degrees is 0.                      *)
C13_Symmetric ==
    \A ch \in Channels :
        \A i, j \in 1..Len(evaluations[ch]) :
            LET a == evaluations[ch][i]
                b == evaluations[ch][j]
            IN  /\ (a.reading.temperature_raw = 750) => Shift(a) = 0
                /\ ( /\ InRange(a.reading.temperature_raw)
                     /\ InRange(b.reading.temperature_raw)
                     /\ a.reading.temperature_raw - 750
                            = 750 - b.reading.temperature_raw )
                   => Shift(a) = -Shift(b)

(* C14: the compensation is coefficient * (temperature - 25) * 1000        *)
(* rounded to the nearest millivolt.                                       *)
C14_Rounded ==
    \A ch \in Channels :
        \A i \in 1..Len(evaluations[ch]) :
            \A k \in CoeffMillis :
                LET e == evaluations[ch][i]
                    raw == e.reading.temperature_raw
                IN  (ctx[ch].temp_coefficient = F32Milli(k) /\ InRange(raw))
                    => Shift(e) = RoundedQuotient(k * (raw - 750), 10)

(* C15: every evaluation computes its effective thresholds from the        *)
(* thresholds and the coefficient the configuration holds at that          *)
(* evaluation.                                                             *)
C15_FreshConfig ==
    \A ch \in Channels :
        \A i \in 1..Len(evaluations[ch]) :
            LET e == evaluations[ch][i]
                compensation_mv ==
                    CompensationAt(e.cfg.temp_coefficient,
                                   e.reading.temperature_raw)
            IN  /\ e.th_on_mv = e.cfg.th_on_mv + compensation_mv
                /\ e.th_off_mv = e.cfg.th_off_mv + compensation_mv

(* C16: a reading whose temperature is below -40 or above 125 degrees is   *)
(* evaluated with the configured thresholds unshifted; at exactly -40 and  *)
(* 125 degrees the thresholds are shifted for that temperature; every      *)
(* reading is filtered and its command is in the command queue.            *)
C16_OutOfRange ==
    \A ch \in Channels :
        /\ Len(command_queue[ch]) = Len(evaluations[ch])
        /\ \A i \in 1..Len(evaluations[ch]) :
               LET e == evaluations[ch][i]
                   raw == e.reading.temperature_raw
               IN  /\ (raw < 100 \/ raw > 1750) =>
                          /\ e.th_on_mv = e.cfg.th_on_mv
                          /\ e.th_off_mv = e.cfg.th_off_mv
                   /\ (raw = 100 \/ raw = 1750) =>
                          /\ Shift(e) = ShiftAt(ctx[ch].temp_coefficient, raw)
                          /\ Shift(e) # 0
                          /\ e.th_off_mv = e.cfg.th_off_mv + Shift(e)
                   /\ command_queue[ch][i] = e.cmd
                   /\ e.cmd.filtered_voltage = e.reading.battery_voltage_mv
                   /\ e.cmd.timestamp_ms = e.reading.timestamp_ms

(* C16 witness: a channel evaluated a reading of 125.1 degrees with its    *)
(* thresholds unshifted and then a reading of -40 degrees with them        *)
(* shifted, and both commands are queued.                                  *)
C16_Witness ==
    \E ch \in Channels :
        /\ Len(evaluations[ch]) = 2
        /\ evaluations[ch][1].reading.temperature_raw = 1751
        /\ Shift(evaluations[ch][1]) = 0
        /\ evaluations[ch][2].reading.temperature_raw = 100
        /\ Shift(evaluations[ch][2]) # 0
        /\ Len(command_queue[ch]) = 2

(* C17: a channel task that processes a reading while its command queue    *)
(* holds 5 commands completes its step with the queue left as it was, the  *)
(* reading consumed and its filter advanced; otherwise its command is      *)
(* appended; no step leaves more than 5 commands in a queue.               *)
C17_DropOnFull ==
    [][\A ch \in Channels :
         /\ Len(command_queue'[ch]) <= 5
         /\ (Len(evaluations'[ch]) = Len(evaluations[ch]) + 1) =>
                LET e == Last(evaluations'[ch])
                IN  /\ IF Len(command_queue[ch]) = 5
                       THEN command_queue'[ch] = command_queue[ch]
                       ELSE command_queue'[ch] = Append(command_queue[ch], e.cmd)
                    /\ ctx'[ch].ma_filter
                           = ma_add(ctx[ch].ma_filter,
                                    e.reading.battery_voltage_mv)
                    /\ ctx'[ch].state.filtered_voltage = e.cmd.filtered_voltage
                    /\ adc_queue'[ch] = Tail(adc_queue[ch])]_vars

(* C17 witness: a channel's command was dropped on the full queue and the  *)
(* channel has processed a later reading.                                  *)
C17_Witness ==
    \E ch \in Channels :
        \E i \in 1..(Len(evaluations[ch]) - 1) :
            /\ ~evaluations[ch][i].sent
            /\ Len(command_queue[ch]) = 5
            /\ evaluations[ch][i + 1].reading.timestamp_ms
                   > evaluations[ch][i].reading.timestamp_ms

(* C18: a command the control task receives carries a timestamp at most    *)
(* 100 ms behind the newest reading its channel has processed.             *)
C18_Staleness ==
    [][\A ch \in Channels :
         (Len(received'[ch]) = Len(received[ch]) + 1) =>
             Last(evaluations[ch]).reading.timestamp_ms
                 - Last(received'[ch]).timestamp_ms <= 100]_vars

(* The commands a channel task has produced, in order. *)
Produced(ch) == [i \in 1..Len(evaluations[ch]) |-> evaluations[ch][i].cmd]

RECURSIVE IsSubsequence(_, _)
IsSubsequence(a, b) ==
    IF a = <<>> THEN TRUE
    ELSE IF b = <<>> THEN FALSE
    ELSE IF Head(a) = Head(b) THEN IsSubsequence(Tail(a), Tail(b))
    ELSE IsSubsequence(a, Tail(b))

(* C19: the commands received from a channel are a subsequence of the      *)
(* commands the channel produced, with non-decreasing timestamps and none  *)
(* received twice.                                                         *)
C19_Fifo ==
    \A ch \in Channels :
        /\ IsSubsequence(received[ch], Produced(ch))
        /\ \A i \in 1..(Len(received[ch]) - 1) :
               received[ch][i].timestamp_ms <= received[ch][i + 1].timestamp_ms
        /\ \A i, j \in 1..Len(received[ch]) :
               (i # j) => received[ch][i] # received[ch][j]

(* C19 witness: two commands of a channel were received after one of its   *)
(* commands had been dropped, and more are queued.                         *)
C19_Witness ==
    \E ch \in Channels :
        /\ Len(received[ch]) >= 2
        /\ \E i \in 1..Len(evaluations[ch]) : ~evaluations[ch][i].sent
        /\ command_queue[ch] # <<>>

(* The state a channel reaches from its readings, its own configured       *)
(* thresholds at each of them and the coefficient it started with.         *)
OwnStart == [ma_filter |-> ma_init, output_state |-> FALSE, last_change_time |-> 0]

OwnStep(st, e, coeff) ==
    LET ma == ma_add(st.ma_filter, e.reading.battery_voltage_mv)
        shift == CompensationAt(coeff, e.reading.temperature_raw)
        new == apply_hysteresis(st.output_state, ma_get(ma),
                                e.cfg.th_on_mv + shift, e.cfg.th_off_mv + shift)
    IN  IF new # st.output_state
           /\ U32Sub(e.reading.timestamp_ms, st.last_change_time) >= 5000
        THEN [ma_filter |-> ma, output_state |-> new,
              last_change_time |-> e.reading.timestamp_ms]
        ELSE [st EXCEPT !.ma_filter = ma]

RECURSIVE Replay(_, _, _)
Replay(log, n, coeff) ==
    IF n = 0 THEN OwnStart ELSE OwnStep(Replay(log, n - 1, coeff), log[n], coeff)

(* C20: the filter, the output state and the last-change time of a channel *)
(* are a function of the readings delivered to it, its own thresholds at   *)
(* each reading and the coefficient it started with.                       *)
C20_Independent ==
    \A ch \in Channels :
        LET own == Replay(evaluations[ch], Len(evaluations[ch]),
                          DEFAULT_TEMP_COEFF)
        IN  /\ ctx[ch].ma_filter = own.ma_filter
            /\ ctx[ch].state.output_state = own.output_state
            /\ ctx[ch].state.last_change_time = own.last_change_time

(* C20 witness: both channels have processed the same readings, their      *)
(* thresholds differ, and so do their output states.                       *)
C20_Witness ==
    /\ Len(evaluations[0]) >= 1
    /\ Len(evaluations[0]) = Len(evaluations[1])
    /\ \A i \in 1..Len(evaluations[0]) :
           evaluations[0][i].reading = evaluations[1][i].reading
    /\ g_config.ch0_th_on_mv # g_config.ch1_th_on_mv
    /\ ctx[0].state.output_state # ctx[1].state.output_state

(* The steps in which a task writes hw_state while it holds hw_mutex: the *)
(* update of apply_hardware_control, divided or in one step, and the      *)
(* shutdown command.                                                      *)
LockedStep ==
    \/ hw_mutex = "control" /\ ctl.pc = "locked" /\ ctl' # ctl
    \/ hw_mutex = "free" /\ ctl.pc = "apply" /\ ctl' # ctl
    \/ hw_mutex = "free" /\ cli.pc = "idle" /\ cli'.cmd = "shutdown"

(* C21: when the control task reaches its hardware update while another    *)
(* task holds hw_mutex, the step leaves hw_state, both PWM duties and the  *)
(* lock as they are and takes the task to the top of its next cycle.       *)
C21_LockTimeout ==
    [][(/\ ctl.pc = "apply"
        /\ ctl' # ctl
        /\ ctl.ch_updated[0] \/ ctl.ch_updated[1] \/ ctl.motion_override
        /\ hw_mutex # "free")
       => /\ hw_state' = hw_state
          /\ ledc_duty' = ledc_duty
          /\ hw_mutex' = hw_mutex
          /\ ctl'.pc = "recv0"]_vars

(* C21 witness: the cycle that received channel 1's ON command has ended   *)
(* while the console holds the lock, and hw_state still shows the update   *)
(* of the cycle before it: channel 0 enabled, channel 1 not.               *)
C21_Witness ==
    /\ hw_mutex = "cli"
    /\ ctl.pc = "recv0"
    /\ received[1] # <<>>
    /\ ctl.ch_cmd[1].output_state
    /\ hw_state.ch0_state
    /\ ~hw_state.ch1_state
    /\ ledc_duty[1] = 0

(* C22: every step that changes a field of hw_state is taken by a task     *)
(* that holds hw_mutex.                                                    *)
C22_WritesUnderLock == [][hw_state' # hw_state => LockedStep]_vars

(* C26: when the shutdown command returns, both PWM duties are 0 and       *)
(* hw_state has both channels off and pwm_duty 0.                          *)
C26_Shutdown ==
    [][(cli.pc = "idle" /\ cli' # cli /\ cli'.pc = "idle"
        /\ cli'.cmd = "shutdown")
       => /\ ledc_duty' = [ch \in Channels |-> 0]
          /\ ~hw_state'.ch0_state
          /\ ~hw_state'.ch1_state
          /\ hw_state'.pwm_duty = 0]_vars

(* C23: a step of the interrupt handler that changes motion_active or the *)
(* recorded time is taken more than 500 ms after the last accepted edge,  *)
(* and it sets the flag and records the tick count; within the window the *)
(* handler changes nothing.                                               *)
C23_Debounce ==
    [][(/\ ctl' = ctl /\ cli' = cli
        /\ \/ motion_active' # motion_active
           \/ last_motion_time' # last_motion_time
           \/ last_edge' # last_edge)
       => /\ last_edge = -1 \/ now - last_edge > MOTION_DEBOUNCE_MS
          /\ now - last_motion_time > MOTION_DEBOUNCE_MS
          /\ motion_active'
          /\ last_motion_time' = now
          /\ last_edge' = now]_vars

(* C23 witness: an edge was accepted after the accepted edge that the last *)
(* check of the control task saw, and the clock is inside the window that  *)
(* follows it.                                                             *)
C23_Witness ==
    /\ chk.edge_at >= 0
    /\ last_edge > chk.edge_at
    /\ last_motion_time = last_edge
    /\ motion_active
    /\ now > last_edge
    /\ now - last_edge <= MOTION_DEBOUNCE_MS

(* The time of the latest motion event on record when the cycle's check   *)
(* began, or -1.                                                          *)
EventAt == IF chk.edge_at > chk.trigger_at THEN chk.edge_at ELSE chk.trigger_at

(* A cycle of control_task has made its motion decision, and neither the  *)
(* clock nor the record of motion events has moved since its check began. *)
CycleDecided ==
    /\ ctl.pc = "apply"
    /\ now = chk.start
    /\ last_edge = chk.edge_at
    /\ cli.pc = "idle"
    /\ chk.trigger_at = (IF cli.cmd = "motion" THEN cli.at ELSE -1)

(* C24: a cycle run within the configured timeout of the latest motion     *)
(* event reports the override active; a cycle run later than that, or      *)
(* with no event on record, reports it inactive and leaves the flag clear. *)
C24_Timeout ==
    CycleDecided =>
        IF EventAt >= 0 /\ chk.start - EventAt <= nvs_get_motion_timeout
        THEN ctl.motion_override
        ELSE ~ctl.motion_override /\ ~motion_active

(* C25: a cycle that starts after the motion command has returned, and no  *)
(* more than the configured timeout after it, reports the override active. *)
C25_Trigger ==
    (/\ CycleDecided
     /\ chk.trigger_at >= 0
     /\ chk.start - chk.trigger_at <= nvs_get_motion_timeout)
    => ctl.motion_override

(* C27: once a channel has processed a reading, channel_get_state returns *)
(* its current output state, which is the one its latest command carries, *)
(* and channel_get_filtered_voltage its current filtered voltage.         *)
C27_StatusQuery ==
    \A ch \in Channels :
        evaluations[ch] # <<>> =>
            /\ channel_get_state(ch) = ctx[ch].state.output_state
            /\ channel_get_state(ch) = Last(evaluations[ch]).cmd.output_state
            /\ channel_get_filtered_voltage(ch) = ctx[ch].state.filtered_voltage

(* C28: every evaluation of a channel reads a base pair of thresholds with *)
(* on > off, however the set_threshold command interleaves with the        *)
(* channel tasks.                                                          *)
C28_BasePair ==
    \A ch \in Channels : \A i \in 1..Len(evaluations[ch]) :
        evaluations[ch][i].cfg.th_on_mv > evaluations[ch][i].cfg.th_off_mv

(* C29: set_threshold changes the configuration only if the channel is 0   *)
(* or 1, on > off and both values lie in 10000..20000 mV; a rejected       *)
(* command returns an error and changes nothing; an accepted one changes   *)
(* the thresholds of the addressed channel only.                           *)
C29_SetThreshold ==
    [][cli' # cli /\ cli'.cmd = "set_threshold" =>
          /\ g_config' # g_config =>
                 /\ cli'.channel \in {0, 1}
                 /\ cli'.th_on_mv > cli'.th_off_mv
                 /\ cli'.th_on_mv \in 10000..20000
                 /\ cli'.th_off_mv \in 10000..20000
          /\ cli'.pc = "idle" /\ cli'.ret # 0 => g_config' = g_config
          /\ cli'.channel # 0 =>
                 /\ g_config'.ch0_th_on_mv = g_config.ch0_th_on_mv
                 /\ g_config'.ch0_th_off_mv = g_config.ch0_th_off_mv
          /\ cli'.channel # 1 =>
                 /\ g_config'.ch1_th_on_mv = g_config.ch1_th_on_mv
                 /\ g_config'.ch1_th_off_mv = g_config.ch1_th_off_mv]_vars

(* The readings adc_task has produced in SpecSampling, in production order. *)
Sampled ==
    [i \in 1..n_readings |->
        [battery_voltage_mv |-> 12400, temperature_raw |-> 750,
         timestamp_ms |-> i * ADC_SAMPLE_INTERVAL_MS]]

(* C30: on each channel, the readings its task has processed followed by   *)
(* the readings waiting in its queue are exactly the readings adc_task has *)
(* produced, in production order: none lost, duplicated or reordered.      *)
C30_ExactlyOnce ==
    \A ch \in Channels :
        [i \in 1..Len(evaluations[ch]) |-> evaluations[ch][i].reading]
            \o adc_queue[ch] = Sampled

(* C31: the duty percentage of the actuator state and of the cycle in      *)
(* progress is within 0..100 and the duty written to either PWM output is  *)
(* within 0..8191, and the stored duties stay within 0 <= half <= full     *)
(* <= 100, whatever set_pwm is given.                                      *)
C31_DutyRange ==
    /\ g_config.pwm_half_duty \in 0..g_config.pwm_full_duty
    /\ g_config.pwm_full_duty \in 0..100
    /\ hw_state.pwm_duty \in 0..100
    /\ ctl.duty_percent \in 0..100
    /\ \A ch \in Channels : ledc_duty[ch] \in 0..8191

(* C31 witness: after set_pwm 100 100 a cycle has applied 100 percent, the *)
(* full scale 8191 is on an output.                                        *)
C31_Witness ==
    /\ g_config.pwm_half_duty = 100
    /\ hw_state.pwm_duty = 100
    /\ \E ch \in Channels : ledc_duty[ch] = 8191

(* The evaluations of a channel, read from its log: the output state       *)
(* before evaluation i, the hysteresis candidate of evaluation i, and      *)
(* whether the candidate was applied, blocked by debounce or not a change. *)
StateBefore(ch, i) ==
    IF i = 1 THEN FALSE ELSE evaluations[ch][i - 1].cmd.output_state
CandidateAt(ch, i) ==
    apply_hysteresis(StateBefore(ch, i),
                     evaluations[ch][i].cmd.filtered_voltage,
                     evaluations[ch][i].th_on_mv, evaluations[ch][i].th_off_mv)
AppliedAt(ch, i) == evaluations[ch][i].cmd.output_state # StateBefore(ch, i)
BlockedAt(ch, i) ==
    CandidateAt(ch, i) # StateBefore(ch, i) /\ ~AppliedAt(ch, i)
QuietAt(ch, i) == CandidateAt(ch, i) = StateBefore(ch, i)

(* The hysteresis candidate of the evaluation a step performs on ch. *)
Candidate(ch) ==
    apply_hysteresis(ctx[ch].state.output_state,
                     ctx'[ch].state.filtered_voltage,
                     ctx'[ch].th_on_mv, ctx'[ch].th_off_mv)

(* C32: every processed reading sets the stored filtered voltage to the    *)
(* filter's output for that reading, and offers exactly one command with   *)
(* the channel id, the output state after the evaluation, that filtered    *)
(* voltage and the reading's timestamp: it is appended to the queue, or    *)
(* dropped when the queue holds 5.                                         *)
C32_EveryReading ==
    [][\A ch \in Channels :
          evaluations'[ch] # evaluations[ch] =>
              LET e == Last(evaluations'[ch])
                  cmd == [channel_id |-> ch,
                          output_state |-> ctx'[ch].state.output_state,
                          filtered_voltage |->
                              ma_get(ma_add(ctx[ch].ma_filter,
                                            e.reading.battery_voltage_mv)),
                          timestamp_ms |-> e.reading.timestamp_ms]
              IN  /\ Len(evaluations'[ch]) = Len(evaluations[ch]) + 1
                  /\ ctx'[ch].state.filtered_voltage = cmd.filtered_voltage
                  /\ e.cmd = cmd
                  /\ command_queue'[ch] =
                         IF Len(command_queue[ch]) < 5
                         THEN Append(command_queue[ch], cmd)
                         ELSE command_queue[ch]]_vars

(* C32 witness: a channel has processed a reading without a candidate      *)
(* change, then one whose change was blocked and that moved the filtered   *)
(* voltage, then one whose change was applied; the stored filtered voltage *)
(* is the one of the last command.                                         *)
C32_Witness ==
    \E ch \in Channels :
        /\ Len(evaluations[ch]) = 3
        /\ QuietAt(ch, 1)
        /\ BlockedAt(ch, 2)
        /\ evaluations[ch][2].cmd.filtered_voltage
               # evaluations[ch][1].cmd.filtered_voltage
        /\ AppliedAt(ch, 3)
        /\ ctx[ch].state.filtered_voltage
               = evaluations[ch][3].cmd.filtered_voltage
        /\ Len(command_queue[ch]) = 3

(* C33: an evaluation whose candidate differs from the output state less   *)
(* than 5000 ms after the last change leaves the output state and the      *)
(* last-change time as they were; an applied transition sets the           *)
(* last-change time to the reading's timestamp; a candidate equal to the   *)
(* output state leaves the last-change time as it was.                     *)
C33_DebounceFrame ==
    [][\A ch \in Channels :
          evaluations'[ch] # evaluations[ch] =>
              LET ts == Last(evaluations'[ch]).reading.timestamp_ms
                  before == ctx[ch].state
                  after == ctx'[ch].state
              IN  /\ ( /\ Candidate(ch) # before.output_state
                       /\ ts - before.last_change_time < 5000 ) =>
                         /\ after.output_state = before.output_state
                         /\ after.last_change_time = before.last_change_time
                  /\ after.output_state # before.output_state =>
                         after.last_change_time = ts
                  /\ Candidate(ch) = before.output_state =>
                         /\ after.output_state = before.output_state
                         /\ after.last_change_time = before.last_change_time]_vars

(* C33 witness: a channel was turned ON, a reading without a candidate    *)
(* change left the last-change time alone, a change to OFF was blocked and *)
(* then applied: the last-change time is the timestamp of that reading.    *)
C33_Witness ==
    \E ch \in Channels :
        /\ Len(evaluations[ch]) = 5
        /\ AppliedAt(ch, 2)
        /\ QuietAt(ch, 3)
        /\ BlockedAt(ch, 4)
        /\ AppliedAt(ch, 5)
        /\ accepted[ch] = <<evaluations[ch][2].reading.timestamp_ms,
                            evaluations[ch][5].reading.timestamp_ms>>
        /\ ctx[ch].state.last_change_time
               = evaluations[ch][5].reading.timestamp_ms

(* C34: no reading stamped below 5000 ms changes the output state: every   *)
(* command for such a reading is OFF, and the first change of a channel is *)
(* to ON.                                                                  *)
C34_StartDelay ==
    \A ch \in Channels :
        /\ \A i \in 1..Len(accepted[ch]) : accepted[ch][i] >= 5000
        /\ \A i \in 1..Len(evaluations[ch]) :
               /\ evaluations[ch][i].reading.timestamp_ms < 5000 =>
                      ~evaluations[ch][i].cmd.output_state
               /\ ( /\ accepted[ch] # <<>>
                    /\ evaluations[ch][i].reading.timestamp_ms
                           = accepted[ch][1] ) =>
                      evaluations[ch][i].cmd.output_state

(* C34 witness: a reading stamped 4999 ms with the filtered voltage at or  *)
(* above the ON threshold left the channel OFF, and the reading stamped    *)
(* 5000 ms turned it ON.                                                   *)
C34_Witness ==
    \E ch \in Channels :
        /\ Len(evaluations[ch]) >= 2
        /\ evaluations[ch][1].reading.timestamp_ms = 4999
        /\ evaluations[ch][1].cmd.filtered_voltage
               >= evaluations[ch][1].th_on_mv
        /\ ~evaluations[ch][1].cmd.output_state
        /\ evaluations[ch][2].reading.timestamp_ms = 5000
        /\ evaluations[ch][2].cmd.output_state
        /\ accepted[ch] = <<5000>>

(* A change is pending on ch: its last evaluation's candidate was blocked. *)
Deferred(ch) ==
    evaluations[ch] # <<>> /\ BlockedAt(ch, Len(evaluations[ch]))

(* C35: a candidate that differs from the output state is applied by the   *)
(* first evaluation whose reading is stamped at least 5000 ms after the    *)
(* last change, and while readings keep arriving a blocked change does not *)
(* stay pending: the channel takes the candidate state or the candidate    *)
(* goes away.                                                              *)
C35_Deferred ==
    /\ [][\A ch \in Channels :
             ( /\ evaluations'[ch] # evaluations[ch]
               /\ Candidate(ch) # ctx[ch].state.output_state
               /\ Last(evaluations'[ch]).reading.timestamp_ms
                      - ctx[ch].state.last_change_time >= 5000 ) =>
                 /\ ctx'[ch].state.output_state = Candidate(ch)
                 /\ ~Deferred(ch)']_vars
    /\ \A ch \in Channels :
           Deferred(ch) ~> (~Deferred(ch) \/ n_readings = MaxReadings)

(* C35 witness: a change to ON was blocked at two readings in a row and    *)
(* applied at the next, the first one stamped 5000 ms or later.            *)
C35_Witness ==
    \E ch \in Channels :
        /\ Len(evaluations[ch]) = 3
        /\ BlockedAt(ch, 1) /\ CandidateAt(ch, 1)
        /\ BlockedAt(ch, 2) /\ CandidateAt(ch, 2)
        /\ evaluations[ch][2].reading.timestamp_ms < 5000
        /\ AppliedAt(ch, 3)
        /\ evaluations[ch][3].reading.timestamp_ms >= 5000
        /\ ctx[ch].state.output_state

(* C37: with the interrupt handler as the only source of motion events, a  *)
(* motion check that starts after the handler has accepted an edge, and    *)
(* returns no more than the configured timeout after that edge, reports    *)
(* the override active.                                                    *)
C37_EdgeKept ==
    (/\ ctl.pc = "apply"
     /\ cli.cmd = "none"
     /\ chk.edge_at >= 0
     /\ now - chk.edge_at <= nvs_get_motion_timeout)
    => ctl.motion_override

(* The last console command was a shutdown that cleared the outputs, and   *)
(* they are still off.                                                     *)
ShutOff ==
    /\ cli.cmd = "shutdown"
    /\ cli.took_mutex
    /\ ~hw_state.ch0_state
    /\ ~hw_state.ch1_state
    /\ hw_state.pwm_duty = 0
    /\ ledc_duty = [ch \in Channels |-> 0]

(* A step that ends a cycle of control_task which received a command or    *)
(* has the motion override active.                                         *)
UpdatingCycleEnd ==
    /\ ctl.pc \in {"apply", "locked"}
    /\ ctl'.pc = "recv0"
    /\ ctl.ch_updated[0] \/ ctl.ch_updated[1] \/ ctl.motion_override

(* What apply_hardware_control leaves behind for the command of a cycle. *)
Reapplied ==
    /\ hw_state'.ch0_state = (ctl.ch_cmd[0].output_state /\ ctl.duty_percent > 0)
    /\ hw_state'.ch1_state = (ctl.ch_cmd[1].output_state /\ ctl.duty_percent > 0)
    /\ hw_state'.pwm_duty = ctl.duty_percent
    /\ \A ch \in Channels :
           ledc_duty'[ch] = IF ctl.ch_cmd[ch].output_state
                            THEN (8191 * ctl.duty_percent) \div 100 ELSE 0

Outputs == <<hw_state.ch0_state, hw_state.ch1_state, hw_state.pwm_duty, ledc_duty>>

(* C39: a step changes the enable flags, the duty or a PWM output only if  *)
(* it ends a cycle of control_task that received a command from a channel  *)
(* queue or has the motion override active; the end of any other cycle     *)
(* leaves them as they are, whatever duty the cycle computed.              *)
C39_UpdateGate ==
    [][/\ Outputs' # Outputs =>
              /\ ctl.pc = "apply" /\ ctl'.pc = "recv0"
              /\ ctl.ch_updated[0] \/ ctl.ch_updated[1] \/ ctl.motion_override
       /\ ( /\ ctl.pc = "apply" /\ ctl'.pc = "recv0"
            /\ ~ctl.ch_updated[0] /\ ~ctl.ch_updated[1]
            /\ ~ctl.motion_override ) =>
              Outputs' = Outputs]_vars

(* C39 witness: channel 0 is enabled at 100 percent, and a cycle with no   *)
(* command and no override has computed duty 0 from a battery below the    *)
(* cutoff: its hardware update will not run.                               *)
C39_Witness ==
    /\ ctl.pc = "apply"
    /\ ~ctl.ch_updated[0] /\ ~ctl.ch_updated[1] /\ ~ctl.motion_override
    /\ ctl.battery_mv < 11000
    /\ ctl.duty_percent = 0
    /\ hw_state.ch0_state
    /\ hw_state.pwm_duty = 100
    /\ ledc_duty[0] = 8191

(* The channel has processed its last reading, and a command carrying its  *)
(* output state was queued at or after the reading from which the state    *)
(* has stayed the same.                                                    *)
Settled(ch) ==
    /\ n_readings = MaxLevelReadings
    /\ \E i \in 1..Len(evaluations[ch]) :
           /\ evaluations[ch][i].sent
           /\ \A j \in i..Len(evaluations[ch]) :
                  evaluations[ch][j].cmd.output_state
                      = ctx[ch].state.output_state

(* C36: once a channel's output state stays the same and a command         *)
(* carrying it has entered the queue, the command control_task retains for *)
(* the channel eventually has that output state and keeps it, whatever     *)
(* commands were dropped on a full queue before or after.                  *)
C36_Level ==
    \A ch \in Channels :
        [](Settled(ch) =>
              <>[](ctl.ch_cmd[ch].output_state = ctx[ch].state.output_state))

(* C36 witness: the channel turned ON, commands carrying ON were dropped   *)
(* on the full queue, the first as the state changed, and control_task     *)
(* has gone from the OFF commands to a retained ON command.                *)
C36_Witness ==
    \E ch \in Channels :
        /\ Settled(ch)
        /\ ctx[ch].state.output_state
        /\ \E i \in 1..Len(evaluations[ch]) :
               /\ AppliedAt(ch, i)
               /\ ~evaluations[ch][i].sent
        /\ Len(received[ch]) >= 2
        /\ ~received[ch][1].output_state
        /\ ctl.ch_cmd[ch].output_state
        /\ command_queue[ch] = <<>>

(* The task inside a section between xSemaphoreTake and xSemaphoreGive. *)
InControlSection == ctl.pc = "locked"
InCliSection == cli.pc \in {"copy", "shutdown_locked"}

(* C40: hw_mutex is held exactly while its one holder is between its take  *)
(* and its give, never by control_task and the console task at once; a     *)
(* task that leaves its section has given the mutex back, also when a PWM  *)
(* driver call failed; and a held mutex is always given back.              *)
C40_Mutex ==
    /\ [](/\ hw_mutex \in {"free", "control", "cli"}
          /\ (hw_mutex = "control") = InControlSection
          /\ (hw_mutex = "cli") = InCliSection
          /\ ~(InControlSection /\ InCliSection))
    /\ [][/\ (InControlSection /\ ~InControlSection') => hw_mutex' = "free"
          /\ (InCliSection /\ ~InCliSection') => hw_mutex' = "free"]_vars
    /\ (hw_mutex # "free") ~> (hw_mutex = "free")

(* C40 witness: control_task has applied channel 0 ON at 50 percent while  *)
(* the driver call for output 0 failed, and the mutex is free again.       *)
C40_Witness ==
    /\ hw_mutex = "free"
    /\ ctl.pc = "recv0"
    /\ hw_state.ch0_state
    /\ hw_state.pwm_duty = 50
    /\ ledc_duty[0] = 0

====
